---- MODULE Spec2Model ----
(***************************************************************************)
(* Billing backend of clinicback: the tenant subscription record store,    *)
(* the plan store, the transaction store, the payment gateway as seen by   *)
(* the controller, and the access gate.                                    *)
(*                                                                         *)
(* Record store collections are sequences in creation order, so that a     *)
(* document's _id is its index and "most recent by created_at" is the      *)
(* highest index.  Documents are never removed.                            *)
(***************************************************************************)
EXTENDS Integers, Sequences, FiniteSets, TLC

\* ---------------------------------------------------------------- bounds
MaxSubs == 2          \* gateway subscriptions created in one behaviour
MaxEvents == 3        \* subscription events the gateway emits
MaxTxns == 2          \* transaction documents written in one behaviour
MaxPIs == 2           \* payment intents the controller creates in one behaviour
MaxNow == 2           \* clock values 0..MaxNow
MaxGateSubs == 2      \* records in the store the gate is evaluated on
MaxOps == 4           \* requests and events handled in one behaviour

\* ------------------------------------------------------------ vocabulary
Tenants == {"t1", "t2"}                  \* tenants present in the store
TenantIds == Tenants \union {"t_absent"} \* ids a request may carry
PlanIds == {"p1", "p2"}                  \* plan documents that may exist
PlanReqIds == PlanIds \union {"p_absent"}

NoDate == -1                             \* an absent optional Date
NoId == 0                                \* an absent optional reference

\* status enum of TenantSubscription (part_000:55)
SubStatuses ==
  {"incomplete", "incomplete_expired", "trialing", "active", "past_due", "canceled", "unpaid"}
\* statuses counted by the "active subscription" checks and the partial index
ActiveSet == {"active", "trialing", "past_due"}
\* statuses the gateway can report; "paused" is not in the local enum
GatewayStatuses == SubStatuses \union {"paused"}

VARIABLES
  subs,             \* TenantSubscription collection
  txns,             \* StripeTransaction collection
  plans,            \* SubscriptionPlan collection, by plan id
  gwSubs,           \* gateway subscriptions, by gateway subscription id
  gwPIs,            \* gateway payment intents, by payment intent id
  gwEvents,         \* subscription events the gateway has emitted, in order
  delivered,        \* indices of gwEvents handled at least once
  uniqueIndexBuilt, \* whether the partial unique index of part_000:121 exists
  now,              \* clock
  resp,             \* the last request and the reply it got
  planReq,          \* plan saves in flight (between pre-save hook and write)
  txnReq,           \* transaction writers in flight (between find and save)
  gateOut,          \* last result of canTenantUsersLogin
  syncOut,          \* report of the last sync run (transactions or plans)
  userClinics,      \* UserClinic collection
  migrateOut,       \* result of the last migrateExistingUsers run
  ops,              \* requests and events handled so far
  workload          \* "lifecycle": valid admin requests, subscription events
                    \* and a gateway and store that answer; "full": also
                    \* invalid requests, forged and other events, and
                    \* gateway calls and store writes that fail

Full == workload = "full"

vars == <<subs, txns, plans, gwSubs, gwPIs, gwEvents, delivered,
          uniqueIndexBuilt, now, resp, planReq, txnReq, gateOut, syncOut, userClinics, migrateOut, ops, workload>>

\* ------------------------------------------------------------ record shapes
\* A TenantSubscription document: the fields the handlers branch on or that a
\* property reads.  Period boundaries, cancel_at_period_end and the canceled /
\* ended timestamps are copied through by the handlers and never read back.
SubDoc(t, p, sid, st, te) ==
  [tenant |-> t, plan |-> p, sid |-> sid, status |-> st, trial_end |-> te]

\* A request and its reply: the handler, the HTTP status, a tag for the message,
\* the document or gateway object addressed, the request's tenant / plan /
\* payment method, and the gateway calls the handler made.
Reply(op, code, msg, target, arg, plan, pm, calls) ==
  [op |-> op, code |-> code, msg |-> msg, target |-> target, arg |-> arg,
   plan |-> plan, pm |-> pm, calls |-> calls]

NoReply == Reply("none", 0, "", NoId, "", "", "", {})

PlanDoc(e, a, d) == [exists |-> e, is_active |-> a, is_default |-> d]

\* the report of a syncTransactionsFromStripe run: the page it listed, the
\* counters of its reply, the payment intents named by its error messages,
\* and the number of items it skipped as already stored
SyncReport(page, synced, errors, messages, skipped) ==
  [page |-> page, total |-> Len(page), synced |-> synced, errors |-> errors,
   messages |-> messages, skipped |-> skipped]

NoSync == SyncReport(<<>>, 0, 0, <<>>, 0)

\* the result of a migrateExistingUsers run, with the number of records its
\* query returned
MigrationResult(scanned, migrated, skipped) ==
  [scanned |-> scanned, migrated |-> migrated, skipped |-> skipped]

NoMigration == MigrationResult(0, 0, 0)

NoGate == [tenant |-> "", allowed |-> FALSE, reason |-> "not_evaluated", status |-> "none"]

\* ==================================================== record store: documents
\* TenantSubscription.save(): enum validation of status, the unique index on
\* stripe_subscription_id, and the partial unique index on (tenant_id, status)
\* for status in {active, trialing, past_due} when that index was built.
\* self is the document's index (Len+1 for a new document).
SubSaveOk(store, self, doc) ==
  /\ doc.status \in SubStatuses
  /\ \A j \in 1..Len(store) : j # self => store[j].sid # doc.sid
  /\ (uniqueIndexBuilt /\ doc.status \in ActiveSet) =>
       \A j \in 1..Len(store) :
         j # self => ~(store[j].tenant = doc.tenant /\ store[j].status = doc.status)

\* ============================================================ payment gateway
\* a gateway subscription: its status and the state of its latest invoice
\* ("open", "paid", or "none" when latest_invoice is null)
GwSub(st, inv) == [status |-> st, invoice |-> inv]

\* a customer.subscription.updated / .deleted event: a snapshot of the
\* gateway subscription at emission time
SubEvent(sid, g) ==
  [type |-> IF g.status = "canceled" THEN "customer.subscription.deleted"
            ELSE "customer.subscription.updated",
   sid |-> sid, status |-> g.status]

GwPI(sid, st) == [sid |-> sid, status |-> st, customer |-> "cus_admin"]

\* payment methods a request may name, and the gateway customer owning each
PaymentMethods == {"pm_admin", "pm_other", "pm_bad"}
AdminCustomer == "cus_admin"
PmCustomer(pm) == IF pm = "pm_admin" THEN AdminCustomer ELSE "cus_other"

\* StripeTransaction documents
TxnCurrencies == {"USD", "EUR", "GBP", "INR", "CAD", "AUD"}
TxnStatuses ==
  {"requires_payment_method", "requires_confirmation", "requires_action",
   "processing", "requires_capture", "canceled", "succeeded", "failed"}

TxnDoc(pi, inv, sub, cus, amt, cur, st, ty) ==
  [pi |-> pi, inv |-> inv, sub |-> sub, customer |-> cus, amount |-> amt,
   currency |-> cur, status |-> st, type |-> ty,
   refunded |-> 0, fee |-> 0, has_net |-> FALSE, net |-> 0]

\* StripeTransaction.save(): required customer id, min 0 on the amounts, the
\* currency and status enums.
TxnSaveOk(doc) ==
  /\ doc.customer # ""
  /\ doc.amount >= 0
  /\ doc.refunded >= 0
  /\ doc.fee >= 0
  /\ doc.has_net => doc.net >= 0
  /\ doc.currency \in TxnCurrencies
  /\ doc.status \in TxnStatuses

PlanPrice == 10   \* price of every plan, in minor units

\* ========================================================= createSubscription
\* lines 453-465: the tenant already holds an active / trialing / past_due record
ConflictCheckAny(store, t) ==
  \E i \in 1..Len(store) : store[i].tenant = t

ConflictCheck(store, t) ==
  \E i \in 1..Len(store) : store[i].tenant = t /\ store[i].status \in ActiveSet

\* what the gateway and the store do during one createSubscription request
\* fail: the call that throws; status: what subscriptions.create answers with
\* under payment_behavior 'default_incomplete' (incomplete with an open first
\* invoice, or trialing with a paid zero invoice); pi: the status of the
\* confirmed payment intent
CreateOutcomes ==
  [fail : {"none", "customer", "admin_customer", "sub_create", "pi_create",
           "invoice_pay", "txn_save", "sub_retrieve", "sub_save"},
   status : {"incomplete", "trialing"},
   pi : {"succeeded", "requires_action"}]

FirstInvoice(st) == IF st = "incomplete" THEN "open" ELSE "paid"

World(s, x, gs, gp, ge, r) ==
  [subs |-> s, txns |-> x, gwSubs |-> gs, gwPIs |-> gp, gwEvents |-> ge, resp |-> r]

\* lines 431-465 without the plan lookup
CreateRejectionNoPlanCheck(store, t, p) ==
  IF t \notin Tenants THEN "tenant_not_found"
  ELSE IF ConflictCheck(store, t) THEN "conflict"
  ELSE "none"

\* lines 431-465: the rejections before any gateway call
CreateRejection(store, t, p) ==
  IF t \notin Tenants THEN "tenant_not_found"
  ELSE IF p \notin PlanIds \/ ~plans[p].exists THEN "plan_not_found"
  ELSE IF ConflictCheck(store, t) THEN "conflict"
  ELSE "none"

\* a delegated payment whose failure path falls through to the final save
AfterFailedPaymentPersists(store, doc) == Append(store, doc)

\* lines 598-605: the catch of the delegated payment answers and returns, so
\* the document of lines 626-642 is never built
AfterFailedPayment(store, doc) == store

createSubscription(auth, t, p, pm, g) ==
  LET R(code, msg, calls) == Reply("createSubscription", code, msg, NoId, t, p, pm, calls)
      Same(r) == World(subs, txns, gwSubs, gwPIs, gwEvents, r)
      sid == Len(gwSubs) + 1
      te == IF g.status = "trialing" THEN now + 1 ELSE NoDate
      gw0 == GwSub(g.status, FirstInvoice(g.status))
      gs0 == Append(gwSubs, gw0)
      cust == {"customers.list"}
      \* the local document and the final save (lines 626-642)
      Persist(gs, gp, ge, x, st, calls) ==
        LET doc == SubDoc(t, p, sid, st, te)
        IN IF g.fail = "sub_save" \/ ~SubSaveOk(subs, Len(subs) + 1, doc)
           THEN World(subs, x, gs, gp, ge, R(500, "error", calls))
           ELSE World(Append(subs, doc), x, gs, gp, ge, R(201, "created", calls))
  IN
  IF ~auth THEN Same(R(401, "auth_required", {}))
  ELSE IF CreateRejection(subs, t, p) \in {"tenant_not_found", "plan_not_found"}
  THEN Same(R(404, CreateRejection(subs, t, p), {}))
  ELSE IF CreateRejection(subs, t, p) = "conflict" THEN Same(R(400, "conflict", {}))
  ELSE IF g.fail = "customer" THEN Same(R(500, "customer_failed", cust))
  ELSE IF pm = "" THEN
    \* self-pay path (lines 606-624)
    IF g.fail = "sub_create"
    THEN Same(R(500, "error", cust \union {"subscriptions.create"}))
    ELSE Persist(gs0, gwPIs, gwEvents, txns, g.status, cust \union {"subscriptions.create"})
  ELSE
    \* delegated-pay path (lines 500-605)
    IF g.fail = "admin_customer" \/ pm = "pm_bad"
    THEN Same(R(400, "payment_failed", cust \union {"paymentMethods.retrieve"}))
    ELSE IF PmCustomer(pm) # AdminCustomer
    THEN Same(R(400, "pm_not_admin", cust \union {"paymentMethods.retrieve"}))
    ELSE IF g.fail = "sub_create"
    THEN Same(R(400, "payment_failed",
                cust \union {"paymentMethods.retrieve", "subscriptions.create"}))
    ELSE
      LET c1 == cust \union {"paymentMethods.retrieve", "subscriptions.create"}
          c2 == c1 \union {"paymentIntents.create"}
          c3 == c2 \union {"invoices.pay"}
          c4 == c3 \union {"subscriptions.retrieve"}
          paid == [gw0 EXCEPT !.invoice = "paid", !.status = "active"]
          gsPaid == Append(gwSubs, paid)
          gePaid == Append(gwEvents, SubEvent(sid, paid))
          piId == Len(gwPIs) + 1
          txn == TxnDoc(piId, sid, sid, "cus_tenant", PlanPrice, "USD", "succeeded", "subscription")
      IN
      IF gw0.invoice # "open"
      THEN Persist(gs0, gwPIs, gwEvents, txns, g.status, c1)
      ELSE IF g.fail = "pi_create"
      THEN World(AfterFailedPayment(subs, SubDoc(t, p, sid, gw0.status, te)), txns, gs0,
                 Append(gwPIs, GwPI(sid, "requires_payment_method")),
                 gwEvents, R(400, "payment_failed", c2))
      ELSE IF g.pi # "succeeded"
      THEN World(AfterFailedPayment(subs, SubDoc(t, p, sid, gw0.status, te)), txns, gs0,
                 Append(gwPIs, GwPI(sid, g.pi)), gwEvents,
                 R(400, "payment_failed", c2))
      ELSE IF g.fail = "invoice_pay"
      THEN World(AfterFailedPayment(subs, SubDoc(t, p, sid, gw0.status, te)), txns, gs0,
                 Append(gwPIs, GwPI(sid, "succeeded")), gwEvents,
                 R(400, "payment_failed", c3))
      ELSE IF g.fail = "txn_save" \/ ~TxnSaveOk(txn)
      THEN World(subs, txns, gsPaid, Append(gwPIs, GwPI(sid, "succeeded")), gePaid,
                 R(400, "payment_failed", c3))
      ELSE IF g.fail = "sub_retrieve"
      THEN World(subs, Append(txns, txn), gsPaid, Append(gwPIs, GwPI(sid, "succeeded")),
                 gePaid, R(400, "payment_failed", c4))
      ELSE Persist(gsPaid, Append(gwPIs, GwPI(sid, "succeeded")), gePaid,
                   Append(txns, txn), paid.status, c4)

\* a handler's outcome becomes the next state, within the bounds
Apply(w) ==
  /\ Len(w.gwSubs) <= MaxSubs
  /\ Len(w.gwEvents) <= MaxEvents
  /\ Len(w.txns) <= MaxTxns
  /\ Len(w.gwPIs) <= MaxPIs
  /\ subs' = w.subs
  /\ txns' = w.txns
  /\ gwSubs' = w.gwSubs
  /\ gwPIs' = w.gwPIs
  /\ gwEvents' = w.gwEvents
  /\ resp' = w.resp
  /\ ops < MaxOps
  /\ ops' = ops + 1
  /\ UNCHANGED <<plans, uniqueIndexBuilt, now, planReq, txnReq, gateOut, syncOut, userClinics, migrateOut, workload>>

\* the gateway outcomes that can make a difference to a given request
CreateOutcomesFor(r) ==
  LET first == [fail |-> "none", status |-> "incomplete", pi |-> "succeeded"]
  IN IF ~Full
     THEN {g \in CreateOutcomes : g.fail = "none" /\ g.pi = "succeeded"}
     ELSE IF ~r.auth \/ r.t \notin Tenants \/ r.p \notin PlanIds \/ ConflictCheck(subs, r.t)
     THEN {first}
     ELSE IF r.pm = ""
     THEN {g \in CreateOutcomes :
             /\ g.pi = "succeeded"
             /\ g.fail \in {"none", "customer", "sub_create", "sub_save"}
             /\ g.fail \in {"customer", "sub_create"} => g.status = "incomplete"}
     ELSE IF r.pm # "pm_admin" THEN {first}
     ELSE {g \in CreateOutcomes :
             /\ g.pi = "requires_action" => (g.status = "incomplete" /\ g.fail = "none")
             /\ g.fail \in {"customer", "admin_customer", "sub_create", "pi_create",
                             "invoice_pay", "txn_save", "sub_retrieve"}
                  => g.status = "incomplete"}

\* the requests explored: one unauthenticated, one for an absent tenant, one
\* for an absent plan, and every tenant with every payment method
CreateRequests ==
  IF ~Full
  THEN {[auth |-> TRUE, t |-> t, p |-> "p1", pm |-> pm] :
          t \in Tenants, pm \in {"", "pm_admin"}}
  ELSE
  {[auth |-> FALSE, t |-> "t1", p |-> "p1", pm |-> ""],
   [auth |-> TRUE, t |-> "t_absent", p |-> "p1", pm |-> ""],
   [auth |-> TRUE, t |-> "t1", p |-> "p_absent", pm |-> ""]}
  \union
  {[auth |-> TRUE, t |-> t, p |-> "p1", pm |-> pm] :
     t \in Tenants, pm \in PaymentMethods \union {""}}

CreateSubscription ==
  \E r \in CreateRequests :
    \E g \in CreateOutcomesFor(r) :
      /\ Apply(createSubscription(r.auth, r.t, r.p, r.pm, g))
      /\ UNCHANGED delivered

\* =========================================================== cancelSubscription
cancelSubscription(i, immediately, fail) ==
  LET R(code, msg, calls) ==
        Reply("cancelSubscription", code, msg, i, "", "",
              IF immediately THEN "immediately" ELSE "at_period_end", calls)
      Same(r) == World(subs, txns, gwSubs, gwPIs, gwEvents, r)
  IN
  IF i \notin 1..Len(subs) THEN Same(R(404, "not_found", {}))
  ELSE
    LET sid == subs[i].sid
        call == IF immediately THEN {"subscriptions.cancel"} ELSE {"subscriptions.update"}
        gone == gwSubs[sid].status \in {"canceled", "incomplete_expired"}
        \* cancel_at_period_end leaves the gateway status as it is
        g1 == IF immediately THEN [gwSubs[sid] EXCEPT !.status = "canceled"]
              ELSE gwSubs[sid]
        gs == [gwSubs EXCEPT ![sid] = g1]
        ge == Append(gwEvents, SubEvent(sid, g1))
        doc == IF immediately THEN [subs[i] EXCEPT !.status = "canceled"]
               ELSE subs[i]
    IN IF fail = "gateway" \/ gone THEN Same(R(500, "error", call))
       ELSE IF fail = "save" \/ ~SubSaveOk(subs, i, doc)
       THEN World(subs, txns, gs, gwPIs, ge, R(500, "error", call))
       ELSE World([subs EXCEPT ![i] = doc], txns, gs, gwPIs, ge, R(200, "canceled", call))

CancelSubscription ==
  \E i \in 0..Len(subs), imm \in BOOLEAN, fail \in {"none", "gateway", "save"} :
    /\ i = 0 => (imm /\ fail = "none")
    /\ ~Full => (i # 0 /\ fail = "none")
    /\ Apply(cancelSubscription(i, imm, fail))
    /\ UNCHANGED delivered

\* ====================================================== paySubscriptionOnBehalf
PayOutcomes ==
  [fail : {"none", "retrieve", "admin_customer", "pi_create", "invoice_pay",
           "sub_save", "txn_save"},
   pi : {"succeeded", "requires_action"}]

\* lines 904-942 without the latest-invoice check
PayRejectionNoInvoiceCheck(gw, pm) ==
  IF gw.status = "active" THEN "already_active"
  ELSE IF pm = "pm_bad" THEN "invalid_pm"
  ELSE IF PmCustomer(pm) # AdminCustomer THEN "pm_not_admin"
  ELSE "none"

\* lines 904-942: the three rejections before any payment is attempted
PayRejection(gw, pm) ==
  IF gw.status = "active" THEN "already_active"
  ELSE IF gw.invoice \in {"none", "paid"} THEN "nothing_due"
  ELSE IF pm = "pm_bad" THEN "invalid_pm"
  ELSE IF PmCustomer(pm) # AdminCustomer THEN "pm_not_admin"
  ELSE "none"

\* a transaction document that does not carry the payment intent id
PayTxnNoIntent(piId, sid) ==
  TxnDoc(NoId, sid, sid, "cus_tenant", PlanPrice, "USD", "succeeded", "subscription")

\* lines 985-1006: the transaction document of a payment on behalf, carrying
\* the payment intent, the invoice and the gateway subscription
PayTxn(piId, sid) ==
  TxnDoc(piId, sid, sid, "cus_tenant", PlanPrice, "USD", "succeeded", "subscription")

paySubscriptionOnBehalf(auth, i, pm, g) ==
  LET R(code, msg, calls) == Reply("paySubscriptionOnBehalf", code, msg, i, "", "", pm, calls)
      Same(r) == World(subs, txns, gwSubs, gwPIs, gwEvents, r)
  IN
  IF ~auth THEN Same(R(401, "auth_required", {}))
  ELSE IF pm = "" THEN Same(R(400, "pm_required", {}))
  ELSE IF i \notin 1..Len(subs) THEN Same(R(404, "not_found", {}))
  ELSE
    LET sid == subs[i].sid
        gw == gwSubs[sid]
        c1 == {"subscriptions.retrieve"}
        c2 == c1 \union {"customers.list", "paymentMethods.retrieve"}
        c3 == c2 \union {"paymentIntents.create"}
        c4 == c3 \union {"invoices.pay"}
        rej == PayRejection(gw, pm)
        piId == Len(gwPIs) + 1
        \* paying the invoice activates the subscription unless it has ended
        paid == [gw EXCEPT !.invoice = "paid",
                           !.status = IF @ \in {"canceled", "incomplete_expired"}
                                      THEN @ ELSE "active"]
        gsPaid == [gwSubs EXCEPT ![sid] = paid]
        gePaid == IF paid.status = gw.status THEN gwEvents
                  ELSE Append(gwEvents, SubEvent(sid, paid))
        gpOk == Append(gwPIs, GwPI(sid, "succeeded"))
        doc == [subs[i] EXCEPT !.status = "active"]
        txn == PayTxn(piId, sid)
    IN
    IF g.fail = "retrieve" THEN Same(R(500, "error", c1))
    ELSE IF rej \in {"already_active", "nothing_due"} THEN Same(R(400, rej, c1))
    ELSE IF g.fail = "admin_customer" THEN Same(R(500, "error", c1 \union {"customers.list"}))
    ELSE IF rej # "none" THEN Same(R(400, rej, c2))
    ELSE IF g.fail = "pi_create"
    THEN World(subs, txns, gwSubs, Append(gwPIs, GwPI(sid, "requires_payment_method")),
               gwEvents, R(400, "payment_failed", c3))
    ELSE IF g.pi # "succeeded"
    THEN World(subs, txns, gwSubs, Append(gwPIs, GwPI(sid, g.pi)), gwEvents,
               R(400, "payment_failed_status", c3))
    ELSE IF g.fail = "invoice_pay"
    THEN World(subs, txns, gwSubs, gpOk, gwEvents, R(400, "payment_failed", c4))
    ELSE IF g.fail = "sub_save" \/ ~SubSaveOk(subs, i, doc)
    THEN World(subs, txns, gsPaid, gpOk, gePaid, R(400, "payment_failed", c4))
    ELSE IF g.fail = "txn_save" \/ ~TxnSaveOk(txn)
    THEN World([subs EXCEPT ![i] = doc], txns, gsPaid, gpOk, gePaid,
               R(400, "payment_failed", c4))
    ELSE World([subs EXCEPT ![i] = doc], Append(txns, txn), gsPaid, gpOk, gePaid,
               R(200, "paid", c4))

\* the gateway outcomes that can make a difference to a given request
PayOutcomesFor(r) ==
  LET first == [fail |-> "none", pi |-> "succeeded"]
  IN IF ~Full THEN {first}
     ELSE IF ~r.auth \/ r.pm = "" \/ r.i \notin 1..Len(subs) THEN {first}
     ELSE IF PayRejection(gwSubs[subs[r.i].sid], r.pm) \in {"already_active", "nothing_due"}
     THEN {first, [first EXCEPT !.fail = "retrieve"]}
     ELSE IF PayRejection(gwSubs[subs[r.i].sid], r.pm) # "none"
     THEN {first, [first EXCEPT !.fail = "admin_customer"]}
     ELSE {g \in PayOutcomes : g.pi = "requires_action" => g.fail = "none"}

\* the requests explored: one unauthenticated, one without a payment method,
\* one for an absent subscription, and every record with every payment method
PayRequests ==
  IF ~Full
  THEN {[auth |-> TRUE, i |-> i, pm |-> "pm_admin"] : i \in 1..Len(subs)}
  ELSE
  {[auth |-> FALSE, i |-> 1, pm |-> "pm_admin"],
   [auth |-> TRUE, i |-> 1, pm |-> ""],
   [auth |-> TRUE, i |-> 0, pm |-> "pm_admin"]}
  \union
  {[auth |-> TRUE, i |-> i, pm |-> pm] : i \in 1..Len(subs), pm \in PaymentMethods}

PaySubscriptionOnBehalf ==
  \E r \in PayRequests :
    \E g \in PayOutcomesFor(r) :
      /\ Apply(paySubscriptionOnBehalf(r.auth, r.i, r.pm, g))
      /\ UNCHANGED delivered

\* ============================================ gateway-side subscription changes
\* The gateway moves a subscription to another status on its own (the customer
\* pays, a renewal fails, the setup expires, ...) and emits the event.
GatewayTargets ==
  {"active", "past_due", "canceled"} \union (IF Full THEN {"paused"} ELSE {})

GatewayTransition ==
  \E sid \in 1..Len(gwSubs), st \in GatewayTargets :
    /\ gwSubs[sid].status # st
    /\ gwSubs[sid].status \notin {"canceled", "incomplete_expired"}
    /\ Len(gwEvents) < MaxEvents
    /\ LET g1 == [gwSubs[sid] EXCEPT !.status = st,
                    !.invoice = IF st = "active" THEN "paid"
                                ELSE IF st = "past_due" THEN "open" ELSE @]
       IN /\ gwSubs' = [gwSubs EXCEPT ![sid] = g1]
          /\ gwEvents' = Append(gwEvents, SubEvent(sid, g1))
    /\ resp' = Reply("gateway", 0, st, sid, "", "", "", {})
    /\ ops < MaxOps
    /\ ops' = ops + 1
    /\ UNCHANGED <<subs, txns, plans, gwPIs, delivered, uniqueIndexBuilt, now,
                   planReq, txnReq, gateOut, syncOut, userClinics, migrateOut, workload>>


\* ==================================================================== webhooks
\* A payment intent payload carries its amount and, when its charges are
\* expanded, the application fee of the first charge (a null fee reads as 0);
\* NoCharge stands for a payload without charges.
NoCharge == -1
PIAmounts == {PlanPrice, 2 * PlanPrice}
PIFees == {NoCharge, 0, 5}

\* Event payloads.  sid is the subscription (for invoice events also the
\* invoice), flag is invoice.paid / "has last_payment_error", k is the index in gwEvents of a subscription event
\* (0 for every other event).
Event(type, sid, st, flag, pi, cus, k) ==
  [type |-> type, sid |-> sid, status |-> st, flag |-> flag, pi |-> pi,
   customer |-> cus, k |-> k, amount |-> PlanPrice, fee |-> NoCharge]

SubEventTypes == {"customer.subscription.updated", "customer.subscription.deleted"}
InvoiceEventTypes == {"invoice.payment_succeeded", "invoice.payment_failed"}
PIEventTypes == {"payment_intent.succeeded", "payment_intent.payment_failed"}

\* payment intents the controller did not create: one of a gateway customer,
\* one paid by a guest (its customer is null)
ExtPiId == MaxPIs + 1
GuestPiId == MaxPIs + 2

\* events the gateway can have signed in the current state
SignedEvents ==
  {Event(gwEvents[k].type, gwEvents[k].sid, gwEvents[k].status,
         FALSE, NoId, "cus_tenant", k) : k \in 1..Len(gwEvents)}
  \union
  {Event(IF paid THEN "invoice.payment_succeeded" ELSE "invoice.payment_failed",
         sid, "", paid, NoId, "cus_tenant", 0) : sid \in 1..Len(gwSubs), paid \in BOOLEAN}
  \union
  {Event(IF st = "succeeded" THEN "payment_intent.succeeded"
         ELSE "payment_intent.payment_failed",
         NoId, st, st # "succeeded", pi, "cus_admin", 0) :
     pi \in 1..Len(gwPIs), st \in {"succeeded", "requires_payment_method"}}
  \union
  {Event(IF st = "succeeded" THEN "payment_intent.succeeded"
         ELSE "payment_intent.payment_failed",
         NoId, st, st # "succeeded", ExtPiId, "cus_tenant", 0) :
     st \in {"succeeded", "requires_payment_method"}}
  \union
  {Event("payment_intent.succeeded", NoId, "succeeded", FALSE, GuestPiId, "", 0)}
  \union
  {Event("customer.created", NoId, "", FALSE, NoId, "cus_tenant", 0)}

\* payment intent events with and without expanded charges.  An intent the
\* controller created is confirmed at creation and keeps its amount; the
\* amount of an intent created elsewhere may be updated at the gateway
\* between a failed attempt and a later one.
AmountEvents ==
  {[ev EXCEPT !.amount = a, !.fee = f] :
     ev \in {e \in SignedEvents : e.type \in PIEventTypes /\ e.pi # GuestPiId},
     a \in PIAmounts, f \in PIFees}
  \ {ev \in [type : PIEventTypes, sid : {NoId}, status : TxnStatuses, flag : BOOLEAN,
              pi : 1..MaxPIs, customer : {"cus_admin"}, k : {0},
              amount : PIAmounts \ {PlanPrice}, fee : PIFees] : TRUE}

\* payloads anyone can post without the signing secret
ForgedEvents ==
  {Event(ty, sid, st, FALSE, NoId, "cus_tenant", 0) :
     ty \in SubEventTypes, sid \in 1..MaxSubs, st \in {"active", "canceled"}}
  \union
  {Event("invoice.payment_succeeded", sid, "", TRUE, NoId, "cus_tenant", 0) :
     sid \in 1..MaxSubs}
  \union
  {Event("payment_intent.succeeded", NoId, "succeeded", FALSE, ExtPiId, "cus_tenant", 0)}

\* handleSubscriptionUpdate: whether the handler's try block throws (the store
\* is down or the save is refused), and the store it leaves; the catch logs
FindBySid(store, sid) ==
  LET hit == {i \in 1..Len(store) : store[i].sid = sid}
  IN IF hit = {} THEN NoId ELSE CHOOSE j \in hit : \A h \in hit : j <= h

SubscriptionUpdateThrows(store, ev, dbFails) ==
  LET i == FindBySid(store, ev.sid)
  IN dbFails \/ (i # NoId /\ ~SubSaveOk(store, i, [store[i] EXCEPT !.status = ev.status]))

handleSubscriptionUpdate(store, ev, dbFails) ==
  LET i == FindBySid(store, ev.sid)
  IN IF i = NoId \/ SubscriptionUpdateThrows(store, ev, dbFails) THEN store
     ELSE [store EXCEPT ![i] = [store[i] EXCEPT !.status = ev.status]]

\* handlePaymentUpdate: appends a transaction for the invoice
InvoiceTxn(ev) ==
  TxnDoc(NoId, ev.sid, ev.sid, ev.customer, IF ev.flag THEN PlanPrice ELSE 0,
         "USD", IF ev.flag THEN "succeeded" ELSE "failed", "subscription")

PaymentUpdateThrows(ev, dbFails) == dbFails \/ ~TxnSaveOk(InvoiceTxn(ev))

\* a handler that keeps one transaction per invoice
handlePaymentUpdateOncePerInvoice(store, ev, dbFails) ==
  IF PaymentUpdateThrows(ev, dbFails) \/ \E i \in 1..Len(store) : store[i].inv = ev.sid
  THEN store ELSE Append(store, InvoiceTxn(ev))

handlePaymentUpdate(store, ev, dbFails) ==
  IF PaymentUpdateThrows(ev, dbFails) THEN store ELSE Append(store, InvoiceTxn(ev))

\* handlePaymentIntentUpdate, lines 1487-1503: find by payment intent id, then
\* a new document or the found one with the event's status
PIFound(store, pi) ==
  LET hit == {i \in 1..Len(store) : store[i].pi = pi}
  IN IF hit = {} THEN NoId ELSE CHOOSE j \in hit : \A h \in hit : j <= h

\* lines 1510-1518: with charges in the payload, the fee and the net amount
\* are set from the payload
WithCharges(doc, ev) ==
  IF ev.fee = NoCharge THEN doc
  ELSE [doc EXCEPT !.fee = ev.fee, !.has_net = TRUE, !.net = ev.amount - ev.fee]

PIUpsertDoc(store, ev) ==
  WithCharges(
    IF PIFound(store, ev.pi) = NoId
    THEN TxnDoc(ev.pi, NoId, NoId, ev.customer, ev.amount, "USD", ev.status, "one_time")
    ELSE [store[PIFound(store, ev.pi)] EXCEPT !.status = ev.status],
    ev)

PaymentIntentUpdateThrows(store, ev, dbFails) ==
  dbFails \/ ~TxnSaveOk(PIUpsertDoc(store, ev))

handlePaymentIntentUpdate(store, ev, dbFails) ==
  LET i == PIFound(store, ev.pi)
      doc == PIUpsertDoc(store, ev)
  IN IF PaymentIntentUpdateThrows(store, ev, dbFails) THEN store
     ELSE IF i = NoId THEN Append(store, doc)
     ELSE [store EXCEPT ![i] = doc]

\* a handleWebhook whose handlers let their errors reach the outer catch
WebhookReplyStrict(sigOk, handlerThrew) ==
  IF ~sigOk THEN 400 ELSE IF handlerThrew THEN 500 ELSE 200

\* the reply of handleWebhook: 400 on a bad signature; every handler catches
\* its own errors, so the switch always falls through to the 200
WebhookReply(sigOk, handlerThrew) ==
  IF ~sigOk THEN 400 ELSE 200

\* a handleWebhook that logs a bad signature and carries on
DispatchesLogOnly(sigOk) == TRUE

\* lines 1403-1409: a bad signature ends the request before the switch
Dispatches(sigOk) == sigOk

HandlerThrows(ev, dbFails) ==
  IF ev.type \in SubEventTypes THEN SubscriptionUpdateThrows(subs, ev, dbFails)
  ELSE IF ev.type \in InvoiceEventTypes THEN PaymentUpdateThrows(ev, dbFails)
  ELSE IF ev.type \in PIEventTypes THEN PaymentIntentUpdateThrows(txns, ev, dbFails)
  ELSE FALSE

handleWebhook(sigOk, ev, dbFails) ==
  LET r == Reply("handleWebhook", WebhookReply(sigOk, HandlerThrows(ev, dbFails)), ev.type,
                 IF ev.type \in PIEventTypes THEN ev.pi ELSE ev.sid, ev.status, "",
                 IF sigOk THEN "signed" ELSE "bad_signature", {})
  IN IF ~Dispatches(sigOk) THEN World(subs, txns, gwSubs, gwPIs, gwEvents, r)
     ELSE IF ev.type \in SubEventTypes
     THEN World(handleSubscriptionUpdate(subs, ev, dbFails), txns, gwSubs, gwPIs, gwEvents, r)
     ELSE IF ev.type \in InvoiceEventTypes
     THEN World(subs, handlePaymentUpdate(txns, ev, dbFails), gwSubs, gwPIs, gwEvents, r)
     ELSE IF ev.type \in PIEventTypes
     THEN World(subs, handlePaymentIntentUpdate(txns, ev, dbFails), gwSubs, gwPIs, gwEvents, r)
     ELSE World(subs, txns, gwSubs, gwPIs, gwEvents, r)

\* the deliveries explored: under the "lifecycle" workload the subscription
\* events the gateway emitted, under "intents" the payment intent events,
\* under "amounts" the same with every amount and fee,
\* under "deliveries" the subscription and invoice events, all signed and
\* with a store that answers; under "full" everything
HookEvents(sigOk) ==
  IF ~sigOk THEN ForgedEvents
  ELSE IF workload = "lifecycle" THEN {ev \in SignedEvents : ev.k # 0}
  ELSE IF workload = "intents" THEN {ev \in SignedEvents : ev.type \in PIEventTypes}
  ELSE IF workload = "amounts" THEN AmountEvents
  ELSE IF workload = "deliveries"
  THEN {ev \in SignedEvents : ev.type \in SubEventTypes \union InvoiceEventTypes}
  ELSE SignedEvents

HandleWebhook ==
  \E sigOk \in {TRUE, ~Full}, dbFails \in {FALSE, Full} :
    \E ev \in HookEvents(sigOk) :
      /\ Apply(handleWebhook(sigOk, ev, dbFails))
      /\ delivered' = IF sigOk /\ ev.k # 0 THEN delivered \union {ev.k} ELSE delivered

\* ===================================================== subscription life cycle
SubInit ==
  /\ subs = <<>>
  /\ txns = <<>>
  /\ plans = [p \in PlanIds |-> PlanDoc(TRUE, TRUE, FALSE)]
  /\ gwSubs = <<>>
  /\ gwPIs = <<>>
  /\ gwEvents = <<>>
  /\ delivered = {}
  /\ uniqueIndexBuilt \in BOOLEAN
  /\ now = 0
  /\ resp = NoReply
  /\ planReq = <<>>
  /\ txnReq = <<>>
  /\ gateOut = NoGate
  /\ syncOut = NoSync
  /\ userClinics = <<>>
  /\ migrateOut = NoMigration
  /\ ops = 0
  /\ workload = "lifecycle"

Next ==
  \/ CreateSubscription
  \/ CancelSubscription
  \/ PaySubscriptionOnBehalf
  \/ GatewayTransition
  \/ HandleWebhook

Spec == SubInit /\ [][Next]_vars


\* ============================================================ event delivery
\* One tenant with one freshly created, still incomplete subscription; the
\* gateway changes its status and the events arrive in any order.
DeliverInit ==
  /\ subs = <<SubDoc("t1", "p1", 1, "incomplete", NoDate)>>
  /\ gwSubs = <<GwSub("incomplete", "open")>>
  /\ txns = <<>>
  /\ plans = [p \in PlanIds |-> PlanDoc(TRUE, TRUE, FALSE)]
  /\ gwPIs = <<>>
  /\ gwEvents = <<>>
  /\ delivered = {}
  /\ uniqueIndexBuilt \in BOOLEAN
  /\ now = 0
  /\ resp = NoReply
  /\ planReq = <<>>
  /\ txnReq = <<>>
  /\ gateOut = NoGate
  /\ syncOut = NoSync
  /\ userClinics = <<>>
  /\ migrateOut = NoMigration
  /\ ops = 0
  /\ workload = "lifecycle"

DeliverNext == GatewayTransition \/ HandleWebhook \/ CancelSubscription

SpecDeliver == DeliverInit /\ [][DeliverNext]_vars


\* ============================================================ webhook endpoint
\* One tenant with one subscription; every kind of event, signed or forged,
\* with a store that may refuse the write.
HookInit ==
  /\ \E st \in {"incomplete", "active"} :
       /\ subs = <<SubDoc("t1", "p1", 1, st, NoDate)>>
       /\ gwSubs = <<GwSub(st, FirstInvoice(IF st = "incomplete" THEN st ELSE "trialing"))>>
  /\ txns = <<>>
  /\ plans = [p \in PlanIds |-> PlanDoc(TRUE, TRUE, FALSE)]
  /\ gwPIs = <<>>
  /\ gwEvents = <<>>
  /\ delivered = {}
  /\ uniqueIndexBuilt \in BOOLEAN
  /\ now = 0
  /\ resp = NoReply
  /\ planReq = <<>>
  /\ txnReq = <<>>
  /\ gateOut = NoGate
  /\ syncOut = NoSync
  /\ userClinics = <<>>
  /\ migrateOut = NoMigration
  /\ ops = 0
  /\ workload = "full"

HookNext == GatewayTransition \/ HandleWebhook

SpecHook == HookInit /\ [][HookNext]_vars

\* ============================================================== pay on behalf
\* One tenant with one subscription, the local record and the gateway
\* subscription in any pair of statuses, the latest invoice open, paid or
\* missing; every request, with a gateway and a store that may fail.
PayInit ==
  /\ \E ls \in SubStatuses, gs \in GatewayStatuses, inv \in {"none", "open", "paid"} :
       /\ subs = <<SubDoc("t1", "p1", 1, ls, IF ls = "trialing" THEN 1 ELSE NoDate)>>
       /\ gwSubs = <<GwSub(gs, inv)>>
  /\ txns = <<>>
  /\ plans = [p \in PlanIds |-> PlanDoc(TRUE, TRUE, FALSE)]
  /\ gwPIs = <<>>
  /\ gwEvents = <<>>
  /\ delivered = {}
  /\ uniqueIndexBuilt \in BOOLEAN
  /\ now = 0
  /\ resp = NoReply
  /\ planReq = <<>>
  /\ txnReq = <<>>
  /\ gateOut = NoGate
  /\ syncOut = NoSync
  /\ userClinics = <<>>
  /\ migrateOut = NoMigration
  /\ ops = 0
  /\ workload = "full"

PayNext == PaySubscriptionOnBehalf

SpecPay == PayInit /\ [][PayNext]_vars


\* records of tenant t holding a status of the "active" set
ActiveRecords(t) ==
  {i \in 1..Len(subs) : subs[i].tenant = t /\ subs[i].status \in ActiveSet}

\* C1: after any sequence of completed operations every tenant has at most
\* one record whose status is active, trialing or past_due.
C1_AtMostOneActivePerTenant ==
  \A t \in Tenants : Cardinality(ActiveRecords(t)) <= 1

\* C2 as stated: once a tenant holds an incomplete record, a further
\* createSubscription for that tenant is rejected with Conflict and adds no
\* record.
C2_SecondCreateRejected ==
  [][(/\ resp'.op = "createSubscription"
      /\ \E i \in 1..Len(subs) :
           subs[i].tenant = resp'.arg /\ subs[i].status = "incomplete")
     => (resp'.code = 400 /\ resp'.msg = "conflict" /\ subs' = subs)]_vars

\* C2 amended: a createSubscription for a tenant (authenticated, tenant and
\* plan present) is rejected with Conflict exactly when the tenant already
\* holds an active, trialing or past_due record, and then nothing is written
\* and no gateway subscription is created; records in any other status, such
\* as incomplete, do not block it.
C2_ConflictIffActiveRecord ==
  [][(resp'.op = "createSubscription" /\ resp'.code \notin {401, 404})
     => /\ (resp'.code = 400 /\ resp'.msg = "conflict")
             <=> ActiveRecords(resp'.arg) # {}
        /\ ActiveRecords(resp'.arg) # {}
             => (subs' = subs /\ gwSubs' = gwSubs /\ txns' = txns)
        /\ (ActiveRecords(resp'.arg) = {} /\ ~Full)
             => (resp'.code = 201 /\ Len(subs') = Len(subs) + 1)]_vars

\* the second request of the scenario went through: the tenant's first record
\* is still incomplete and a second record was persisted
C2_Witness ==
  /\ resp.op = "createSubscription"
  /\ resp.code = 201
  /\ Len(subs) = 2
  /\ subs[1].tenant = resp.arg
  /\ subs[2].tenant = resp.arg
  /\ subs[1].status = "incomplete"


\* subscription events the gateway emitted for gateway subscription sid
EventsOf(sid) == {k \in 1..Len(gwEvents) : gwEvents[k].sid = sid}

\* C7: once every subscription event the gateway emitted for a subscription
\* has been delivered and handled, in whatever order, the local record's
\* status equals the gateway's current status.
C7_MirrorsLatestStatus ==
  \A i \in 1..Len(subs) :
    (EventsOf(subs[i].sid) # {} /\ EventsOf(subs[i].sid) \subseteq delivered)
      => subs[i].status = gwSubs[subs[i].sid].status


\* ================================================================ Access Gate
\* the lookup sorted the other way: the tenant's oldest record
getTenantSubscriptionOldest(store, t, dbFails) ==
  LET mine == {i \in 1..Len(store) : store[i].tenant = t}
  IN IF dbFails \/ mine = {} THEN NoId
     ELSE CHOOSE i \in mine : \A j \in mine : i <= j

\* getTenantSubscription: findOne({tenant_id}).sort({created_at: -1}); a store
\* error is caught and null (0 here) is returned.
getTenantSubscription(store, t, dbFails) ==
  LET mine == {i \in 1..Len(store) : store[i].tenant = t}
  IN IF dbFails \/ mine = {} THEN NoId
     ELSE CHOOSE i \in mine : \A j \in mine : j <= i

\* GateDecision with the trial comparison off by one
GateDecisionFlip(st, te, clock) ==
  CASE st = "active" -> [allowed |-> TRUE, reason |-> ""]
    [] st = "trialing" ->
         IF te # NoDate /\ clock >= te
         THEN [allowed |-> FALSE, reason |-> "trial_expired"]
         ELSE [allowed |-> TRUE, reason |-> ""]
    [] st \in {"past_due", "incomplete", "incomplete_expired", "canceled", "unpaid"} ->
         [allowed |-> FALSE, reason |-> st]
    [] OTHER -> [allowed |-> FALSE, reason |-> "unknown"]

\* the switch of canTenantUsersLogin on subscription.status
GateDecision(st, te, clock) ==
  CASE st = "active" -> [allowed |-> TRUE, reason |-> ""]
    [] st = "trialing" ->
         IF te # NoDate /\ clock > te
         THEN [allowed |-> FALSE, reason |-> "trial_expired"]
         ELSE [allowed |-> TRUE, reason |-> ""]
    [] st \in {"past_due", "incomplete", "incomplete_expired", "canceled", "unpaid"} ->
         [allowed |-> FALSE, reason |-> st]
    [] OTHER -> [allowed |-> FALSE, reason |-> "unknown"]

\* a gate that lets the tenant in when the lookup fails
canTenantUsersLoginFailOpen(store, t, clock, dbFails) ==
  LET i == getTenantSubscription(store, t, dbFails)
  IN IF dbFails
     THEN [tenant |-> t, allowed |-> TRUE, reason |-> "", status |-> "none"]
     ELSE IF i = NoId
     THEN [tenant |-> t, allowed |-> FALSE, reason |-> "none_found", status |-> "none"]
     ELSE LET d == GateDecision(store[i].status, store[i].trial_end, clock)
          IN [tenant |-> t, allowed |-> d.allowed, reason |-> d.reason,
              status |-> store[i].status]

\* lines 59-143: no record, or a lookup that failed and returned null, is a
\* denial; otherwise the switch on the record's status
canTenantUsersLogin(store, t, clock, dbFails) ==
  LET i == getTenantSubscription(store, t, dbFails)
  IN IF i = NoId
     THEN [tenant |-> t, allowed |-> FALSE, reason |-> "none_found", status |-> "none"]
     ELSE LET d == GateDecision(store[i].status, store[i].trial_end, clock)
          IN [tenant |-> t, allowed |-> d.allowed, reason |-> d.reason,
              status |-> store[i].status]

\* One evaluation of the gate for tenant t.
GateCheck(t, dbFails) ==
  /\ gateOut' = canTenantUsersLogin(subs, t, now, dbFails)
  /\ resp' = Reply("gate", IF dbFails THEN 1 ELSE 0, "", NoId, t, "", "", {})
  /\ UNCHANGED <<subs, txns, plans, gwSubs, gwPIs, gwEvents, delivered,
                 uniqueIndexBuilt, now, planReq, txnReq, syncOut, userClinics, migrateOut, workload>>
  /\ ops < MaxOps
  /\ ops' = ops + 1

\* Stores the gate is evaluated on: every status the function can be handed,
\* recognised or not, with and without a trial end.
GateDocs ==
  {SubDoc(t, "p1", 1, st, te) : t \in Tenants, st \in GatewayStatuses, te \in {NoDate, 1}}

GateInit ==
  /\ subs \in UNION {[1..n -> GateDocs] : n \in 0..MaxGateSubs}
  /\ now \in 0..MaxNow
  /\ txns = <<>>
  /\ plans = [p \in PlanIds |-> PlanDoc(TRUE, TRUE, FALSE)]
  /\ gwSubs = <<>>
  /\ gwPIs = <<>>
  /\ gwEvents = <<>>
  /\ delivered = {}
  /\ uniqueIndexBuilt = FALSE
  /\ resp = NoReply
  /\ planReq = <<>>
  /\ txnReq = <<>>
  /\ gateOut = NoGate
  /\ syncOut = NoSync
  /\ userClinics = <<>>
  /\ migrateOut = NoMigration
  /\ ops = 0
  /\ workload = "full"

GateNext == \E t \in Tenants, f \in BOOLEAN : GateCheck(t, f)

SpecGate == GateInit /\ [][GateNext]_vars

\* The record the gate selected for the tenant it last evaluated (0 if none).
GateSelected == getTenantSubscription(subs, gateOut.tenant, resp.code = 1)

\* C3: canTenantUsersLogin allows exactly when the selected record is active,
\* or trialing with a trial end that is not in the past; every other case
\* (past_due, incomplete, incomplete_expired, canceled, unpaid, expired trial,
\* unrecognised status, no record) is denied with a reason.
C3_GateTable ==
  resp.op = "gate" =>
    LET i == GateSelected
        ok == /\ i # NoId
              /\ \/ subs[i].status = "active"
                 \/ /\ subs[i].status = "trialing"
                    /\ ~(subs[i].trial_end # NoDate /\ subs[i].trial_end < now)
    IN /\ gateOut.allowed <=> ok
       /\ ~gateOut.allowed => gateOut.reason # ""

\* a trial ending exactly now is still allowed; an expired one is denied
C3_Witness ==
  /\ resp.op = "gate"
  /\ GateSelected # NoId
  /\ subs[GateSelected].status = "trialing"
  /\ subs[GateSelected].trial_end = now
  /\ gateOut.allowed

\* C8: a webhook request whose signature fails verification is answered with
\* status 400 and changes neither the subscription records nor the
\* transaction records, whatever event its body carries.
C8_BadSignatureRejected ==
  [][(resp'.op = "handleWebhook" /\ resp'.pm = "bad_signature")
       => (resp'.code = 400 /\ subs' = subs /\ txns' = txns)]_vars

\* a forged event naming an existing subscription with another status was refused
C8_Witness ==
  /\ resp.op = "handleWebhook"
  /\ resp.pm = "bad_signature"
  /\ resp.code = 400
  /\ resp.msg \in SubEventTypes
  /\ \E i \in 1..Len(subs) : subs[i].sid = resp.target /\ subs[i].status # resp.arg

\* C9: once the signature of a webhook request has passed, the reply is 200,
\* whether the handler of the event wrote its change or threw and was caught.
C9_SignedAlwaysAcknowledged ==
  [][(resp'.op = "handleWebhook" /\ resp'.pm = "signed") => resp'.code = 200]_vars

\* a signed subscription event whose write failed (the record still carries
\* another status) and which was acknowledged all the same
C9_Witness ==
  /\ resp.op = "handleWebhook"
  /\ resp.pm = "signed"
  /\ resp.code = 200
  /\ resp.msg \in SubEventTypes
  /\ \E i \in 1..Len(subs) : subs[i].sid = resp.target /\ subs[i].status # resp.arg

\* the pay-on-behalf request reached the gateway lookup (it was authenticated,
\* named a payment method and an existing record, and the lookup answered)
PayLookedUp ==
  /\ resp'.op = "paySubscriptionOnBehalf"
  /\ resp'.target \in 1..Len(subs)
  /\ resp'.msg \notin {"auth_required", "pm_required", "not_found"}
  /\ ~(resp'.code = 500 /\ resp'.calls = {"subscriptions.retrieve"})

\* C10: when the gateway subscription is already active, or its latest invoice
\* is missing or paid, or the payment method is not the admin customer's,
\* paySubscriptionOnBehalf rejects the request, and a request rejected on one
\* of these grounds creates no payment intent, writes no transaction and
\* leaves the local subscription records as they were.
C10_RejectionsChangeNothing ==
  [][/\ (PayLookedUp /\ LET gw == gwSubs[subs[resp'.target].sid]
                        IN \/ gw.status = "active"
                           \/ gw.invoice \in {"none", "paid"}
                           \/ resp'.pm = "pm_other")
          => /\ resp'.msg \in {"already_active", "nothing_due", "pm_not_admin", "error"}
             /\ resp'.code \in {400, 500}
             /\ "paymentIntents.create" \notin resp'.calls
             /\ gwPIs' = gwPIs /\ txns' = txns /\ subs' = subs
     /\ (resp'.op = "paySubscriptionOnBehalf"
           /\ resp'.msg \in {"already_active", "nothing_due", "pm_not_admin"})
          => /\ resp'.code = 400
             /\ "paymentIntents.create" \notin resp'.calls
             /\ gwPIs' = gwPIs /\ txns' = txns /\ subs' = subs /\ gwSubs' = gwSubs]_vars

\* a request for a subscription that is not active locally was turned down
\* because the gateway's latest invoice is already paid
C10_Witness ==
  /\ resp.op = "paySubscriptionOnBehalf"
  /\ resp.msg = "nothing_due"
  /\ resp.target \in 1..Len(subs)
  /\ subs[resp.target].status # "active"
  /\ gwSubs[subs[resp.target].sid].invoice = "paid"
  /\ gwSubs[subs[resp.target].sid].status # "active"
  /\ gwPIs = <<>> /\ txns = <<>>

\* ================================================================ plan store
MaxPlanSaves == 2     \* plan saves in flight at once

\* A plan save in flight: the document as the handler holds it in memory, the
\* paths Mongoose tracks as modified, and how far save() has got ("hook": the
\* pre-save hook has not run; "write": the hook is done, the write is not).
PlanSave(op, p, isNew, a, d, modA, modD) ==
  [op |-> op, plan |-> p, isNew |-> isNew, is_active |-> a, is_default |-> d,
   modActive |-> modA, modDefault |-> modD, phase |-> "hook"]

PlanReply(op, code, msg, p) == Reply(op, code, msg, NoId, "", p, "", {})

\* a handler that ends before any save: only the reply changes
PlanRejected(r) ==
  /\ resp' = r
  /\ UNCHANGED <<plans, planReq>>

\* a handler that reaches plan.save(): the request has no reply yet
PlanSaveBegins(e) ==
  /\ Len(planReq) < MaxPlanSaves
  /\ planReq' = Append(planReq, e)
  /\ resp' = PlanReply(e.op, 0, "saving", e.plan)
  /\ UNCHANGED plans

PlanFrame ==
  /\ ops < MaxOps
  /\ ops' = ops + 1
  /\ UNCHANGED <<subs, txns, gwSubs, gwPIs, gwEvents, delivered, uniqueIndexBuilt,
                 now, txnReq, gateOut, syncOut, userClinics, migrateOut, workload>>

\* createPlan: the gateway product and price are created, then a new document
\* with the request's is_default is saved
CreatePlan ==
  \E p \in PlanIds, auth \in BOOLEAN, d \in BOOLEAN, gwFails \in BOOLEAN :
    /\ ~plans[p].exists
    /\ (~auth \/ gwFails) => d
    /\ \A k \in 1..Len(planReq) : planReq[k].plan # p
    /\ PlanFrame
    /\ IF ~auth THEN PlanRejected(PlanReply("createPlan", 401, "auth_required", p))
       ELSE IF gwFails THEN PlanRejected(PlanReply("createPlan", 500, "error", p))
       ELSE PlanSaveBegins(PlanSave("createPlan", p, TRUE, TRUE, d, TRUE, TRUE))

\* updatePlan: the document is loaded, the request's fields are assigned, and
\* the document is saved; a path is modified when its value changes
UpdatePlan ==
  \E p \in PlanReqIds, setsA \in BOOLEAN, a \in BOOLEAN, setsD \in BOOLEAN, d \in BOOLEAN :
    /\ PlanFrame
    /\ ~setsA => a
    /\ ~setsD => d
    /\ setsA # setsD
    /\ IF p \notin PlanIds \/ ~plans[p].exists
       THEN PlanRejected(PlanReply("updatePlan", 404, "not_found", p))
       ELSE LET a1 == IF setsA THEN a ELSE plans[p].is_active
                d1 == IF setsD THEN d ELSE plans[p].is_default
            IN PlanSaveBegins(PlanSave("updatePlan", p, FALSE, a1, d1,
                                       a1 # plans[p].is_active, d1 # plans[p].is_default))

\* deletePlan: refused while subscriptions of the "active" set reference the
\* plan; otherwise the gateway product is archived and is_active is cleared
\* a count that only looks at status active
ActiveSubscriptionsOfActiveOnly(p) ==
  Cardinality({i \in 1..Len(subs) : subs[i].plan = p /\ subs[i].status = "active"})

\* lines 210-213: the subscriptions of the "active" set referencing the plan
ActiveSubscriptionsOf(p) ==
  Cardinality({i \in 1..Len(subs) : subs[i].plan = p /\ subs[i].status \in ActiveSet})

\* the gateway calls of deletePlan: the product is archived, then the price
ArchiveCalls == {"products.update", "prices.update"}

DeletePlan ==
  \E p \in PlanReqIds, gwFails \in BOOLEAN :
    /\ PlanFrame
    /\ IF p \notin PlanIds \/ ~plans[p].exists
       THEN PlanRejected(PlanReply("deletePlan", 404, "not_found", p))
       ELSE IF ActiveSubscriptionsOf(p) > 0
       THEN PlanRejected(PlanReply("deletePlan", 400, "has_active_subscriptions", p))
       ELSE IF gwFails
       THEN PlanRejected(Reply("deletePlan", 500, "error", NoId, "", p, "",
                               {"products.update"}))
       ELSE PlanSaveBegins(PlanSave("deletePlan", p, FALSE, FALSE, plans[p].is_default,
                                    plans[p].is_active, FALSE))

\* syncPlansFromStripe, for one active gateway price: an existing plan is
\* marked active again; a new document carries no created_by, so its
\* validation fails and the per-product catch counts the error
SyncPlansFromStripe ==
  \E p \in PlanIds, gwFails \in BOOLEAN :
    /\ PlanFrame
    /\ gwFails => p = "p1"
    /\ IF gwFails THEN PlanRejected(PlanReply("syncPlansFromStripe", 500, "error", p))
       ELSE IF ~plans[p].exists
       THEN PlanRejected(PlanReply("syncPlansFromStripe", 200, "sync_error", p))
       ELSE PlanSaveBegins(PlanSave("syncPlansFromStripe", p, FALSE, TRUE,
                                    plans[p].is_default, ~plans[p].is_active, FALSE))

\* the pre-save hook of SubscriptionPlan: when the document is default and
\* is_default is modified, every other document loses its default
ClearOtherDefaults(store, e) ==
  IF e.is_default /\ e.modDefault
  THEN [q \in PlanIds |->
          IF q # e.plan /\ store[q].exists THEN [store[q] EXCEPT !.is_default = FALSE]
          ELSE store[q]]
  ELSE store

PlanPreSave ==
  \E k \in 1..Len(planReq) :
    /\ planReq[k].phase = "hook"
    /\ plans' = ClearOtherDefaults(plans, planReq[k])
    /\ planReq' = [planReq EXCEPT ![k].phase = "write"]
    /\ UNCHANGED <<subs, txns, gwSubs, gwPIs, gwEvents, delivered, uniqueIndexBuilt,
                   now, resp, txnReq, gateOut, syncOut, userClinics, migrateOut, ops, workload>>

\* the write of save(): an insert of the whole document, or an update of the
\* modified paths of an existing one
PlanWritten(store, e) ==
  IF e.isNew THEN [store EXCEPT ![e.plan] = PlanDoc(TRUE, e.is_active, e.is_default)]
  ELSE [store EXCEPT ![e.plan] =
          PlanDoc(TRUE,
                  IF e.modActive THEN e.is_active ELSE @.is_active,
                  IF e.modDefault THEN e.is_default ELSE @.is_default)]

PlanWrite ==
  \E k \in 1..Len(planReq) :
    /\ planReq[k].phase = "write"
    /\ plans' = PlanWritten(plans, planReq[k])
    /\ planReq' = SubSeq(planReq, 1, k - 1) \o SubSeq(planReq, k + 1, Len(planReq))
    /\ resp' = Reply(planReq[k].op, IF planReq[k].op = "createPlan" THEN 201 ELSE 200,
                     "saved", NoId, "", planReq[k].plan, "",
                     IF planReq[k].op = "deletePlan" THEN ArchiveCalls ELSE {})
    /\ UNCHANGED <<subs, txns, gwSubs, gwPIs, gwEvents, delivered, uniqueIndexBuilt,
                   now, txnReq, gateOut, syncOut, userClinics, migrateOut, ops, workload>>

\* One or two plans, at most one of them default, and possibly an active
\* subscription on the first.
PlanInit ==
  /\ \E d1 \in BOOLEAN, e2 \in BOOLEAN :
       plans = [p \in PlanIds |->
                  IF p = "p1" THEN PlanDoc(TRUE, TRUE, d1) ELSE PlanDoc(e2, e2, FALSE)]
  /\ \E st \in {"active", "trialing", "canceled"} :
       /\ subs = <<SubDoc("t1", "p1", 1, st, IF st = "trialing" THEN 1 ELSE NoDate)>>
       /\ gwSubs = <<GwSub(st, "paid")>>
  /\ txns = <<>>
  /\ gwPIs = <<>>
  /\ gwEvents = <<>>
  /\ delivered = {}
  /\ uniqueIndexBuilt = FALSE
  /\ now = 0
  /\ resp = NoReply
  /\ planReq = <<>>
  /\ txnReq = <<>>
  /\ gateOut = NoGate
  /\ syncOut = NoSync
  /\ userClinics = <<>>
  /\ migrateOut = NoMigration
  /\ ops = 0
  /\ workload = "full"

PlanNext ==
  \/ CreatePlan
  \/ UpdatePlan
  \/ DeletePlan
  \/ SyncPlansFromStripe
  \/ PlanPreSave
  \/ PlanWrite

SpecPlan == PlanInit /\ [][PlanNext]_vars

DefaultPlans == {p \in PlanIds : plans[p].exists /\ plans[p].is_default}

\* C4: whenever no plan save is in flight (every plan write begun by
\* createPlan, updatePlan, deletePlan or syncPlansFromStripe has completed),
\* at most one plan has is_default = TRUE, also when two saves that set
\* is_default ran their pre-save clearing and their writes interleaved.
C4_AtMostOneDefaultPlan ==
  planReq = <<>> => Cardinality(DefaultPlans) <= 1

\* ==================================================== payment intent deliveries
\* One unpaid subscription; the admin may pay it, and the gateway delivers the
\* payment intent events of the account, each as often as it likes, one
\* delivery handled after the other.
IntentInit ==
  /\ subs = <<SubDoc("t1", "p1", 1, "incomplete", NoDate)>>
  /\ gwSubs = <<GwSub("incomplete", "open")>>
  /\ txns = <<>>
  /\ plans = [p \in PlanIds |-> PlanDoc(TRUE, TRUE, FALSE)]
  /\ gwPIs = <<>>
  /\ gwEvents = <<>>
  /\ delivered = {}
  /\ uniqueIndexBuilt \in BOOLEAN
  /\ now = 0
  /\ resp = NoReply
  /\ planReq = <<>>
  /\ txnReq = <<>>
  /\ gateOut = NoGate
  /\ syncOut = NoSync
  /\ userClinics = <<>>
  /\ migrateOut = NoMigration
  /\ ops = 0
  /\ workload = "intents"

IntentNext == PaySubscriptionOnBehalf \/ HandleWebhook

SpecIntent == IntentInit /\ [][IntentNext]_vars

\* transaction records holding payment intent id pi
TxnsOf(store, pi) == {i \in 1..Len(store) : store[i].pi = pi}

\* C5: when a signed payment_intent.succeeded or payment_intent.payment_failed
\* event has been handled and the same event (same type, same payment intent)
\* is handled again, exactly one transaction record holds that payment
\* intent id afterwards.
C5_SecondDeliveryLeavesOneRecord ==
  [][(/\ resp.op = "handleWebhook" /\ resp.pm = "signed" /\ resp.msg \in PIEventTypes
      /\ resp'.op = "handleWebhook" /\ resp'.pm = "signed"
      /\ resp'.msg = resp.msg /\ resp'.target = resp.target)
       => Cardinality(TxnsOf(txns', resp'.target)) = 1]_vars

\* ======================================================= transaction writers
MaxTxnWriters == 2    \* writers of the transaction store in flight at once

\* A writer between its lookup (or its charge) and its save: the payment intent
\* it writes for, the intent's status and customer as the writer received
\* them, the record its lookup found, and the subscription record it pays for.
TxnWriter(writer, pi, st, cus, found, sub) ==
  [writer |-> writer, pi |-> pi, status |-> st, customer |-> cus,
   found |-> found, sub |-> sub]

\* payment intents of the gateway account
GatewayIntents == (1..Len(gwPIs)) \union {ExtPiId, GuestPiId}
IntentStatus(pi) == IF pi \in 1..Len(gwPIs) THEN gwPIs[pi].status ELSE "succeeded"
IntentCustomer(pi) ==
  IF pi \in 1..Len(gwPIs) THEN gwPIs[pi].customer
  ELSE IF pi = ExtPiId THEN "cus_tenant" ELSE ""

TxnFrame ==
  UNCHANGED <<plans, gwEvents, delivered, uniqueIndexBuilt, now, planReq, gateOut, syncOut, userClinics, migrateOut, workload>>

TxnWriterBegins(e) ==
  /\ Len(txnReq) < MaxTxnWriters
  /\ ops < MaxOps
  /\ ops' = ops + 1
  /\ txnReq' = Append(txnReq, e)

TxnWriterEnds(k) ==
  /\ txnReq' = SubSeq(txnReq, 1, k - 1) \o SubSeq(txnReq, k + 1, Len(txnReq))
  /\ UNCHANGED ops

\* handlePaymentIntentUpdate up to the answer of its findOne
PaymentIntentFind ==
  \E pi \in GatewayIntents :
    /\ TxnWriterBegins(TxnWriter("handlePaymentIntentUpdate", pi, IntentStatus(pi),
                                 IntentCustomer(pi), PIFound(txns, pi), NoId))
    /\ UNCHANGED <<subs, txns, gwSubs, gwPIs, resp>>
    /\ TxnFrame

\* handlePaymentIntentUpdate from the answer of its findOne: a new document,
\* or the found one with the event's status, is saved; an error is logged
PaymentIntentSave ==
  \E k \in 1..Len(txnReq) :
    LET e == txnReq[k]
        doc == IF e.found = NoId
               THEN TxnDoc(e.pi, NoId, NoId, e.customer, PlanPrice, "USD", e.status, "one_time")
               ELSE [txns[e.found] EXCEPT !.status = e.status]
    IN /\ e.writer = "handlePaymentIntentUpdate"
       /\ TxnWriterEnds(k)
       /\ txns' = IF ~TxnSaveOk(doc) THEN txns
                  ELSE IF e.found = NoId THEN Append(txns, doc)
                  ELSE [txns EXCEPT ![e.found] = doc]
       /\ Len(txns') <= MaxTxns
       /\ resp' = Reply("handleWebhook", 200,
                        IF e.status = "succeeded" THEN "payment_intent.succeeded"
                        ELSE "payment_intent.payment_failed",
                        e.pi, e.status, "", "signed", {})
       /\ UNCHANGED <<subs, gwSubs, gwPIs>>
       /\ TxnFrame

\* syncTransactionsFromStripe, for one listed payment intent, up to the answer
\* of its findOne: an intent that has a record is skipped
SyncTransactionFind ==
  \E pi \in GatewayIntents :
    /\ IF PIFound(txns, pi) # NoId
       THEN /\ ops < MaxOps
            /\ ops' = ops + 1
            /\ resp' = Reply("syncTransactionsFromStripe", 200, "skipped", pi, "", "", "", {})
            /\ UNCHANGED txnReq
       ELSE /\ TxnWriterBegins(TxnWriter("syncTransactionsFromStripe", pi, IntentStatus(pi),
                                         IntentCustomer(pi), NoId, NoId))
            /\ UNCHANGED resp
    /\ UNCHANGED <<subs, txns, gwSubs, gwPIs>>
    /\ TxnFrame

\* the status syncTransactionsFromStripe stores for a gateway status
SyncStatus(st) == IF st = "requires_payment_method" THEN "failed" ELSE st

\* a payment intent of the account in a currency outside the enum of the
\* transaction schema
ForeignPiId == MaxPIs + 3
IntentCurrency(pi) == IF pi = ForeignPiId THEN "JPY" ELSE "USD"

\* lines 1204-1222: the document syncTransactionsFromStripe builds for a
\* payment intent, with "unknown" for an absent customer
SyncDoc(pi, st, cus) ==
  TxnDoc(pi, NoId, IF pi \in 1..Len(gwPIs) THEN gwPIs[pi].sid ELSE NoId,
         IF cus = "" THEN "unknown" ELSE cus,
         PlanPrice, IntentCurrency(pi), SyncStatus(st),
         IF pi \in 1..Len(gwPIs) THEN "subscription" ELSE "one_time")

\* syncTransactionsFromStripe from the answer of its findOne: a new document
\* is saved, with "unknown" for an absent customer
SyncTransactionSave ==
  \E k \in 1..Len(txnReq) :
    LET e == txnReq[k]
        doc == SyncDoc(e.pi, e.status, e.customer)
    IN /\ e.writer = "syncTransactionsFromStripe"
       /\ TxnWriterEnds(k)
       /\ txns' = IF TxnSaveOk(doc) THEN Append(txns, doc) ELSE txns
       /\ Len(txns') <= MaxTxns
       /\ resp' = Reply("syncTransactionsFromStripe", 200,
                        IF TxnSaveOk(doc) THEN "synced" ELSE "sync_error", e.pi, "", "", "", {})
       /\ UNCHANGED <<subs, gwSubs, gwPIs>>
       /\ TxnFrame

\* paySubscriptionOnBehalf up to the answer of invoices.pay, for a request
\* that passes every check and a gateway that accepts the charge: the payment
\* intent exists and the invoice is paid, nothing is stored yet
PayOnBehalfCharge ==
  \E i \in 1..Len(subs) :
    LET sid == subs[i].sid
        gw == gwSubs[sid]
    IN /\ PayRejection(gw, "pm_admin") = "none"
       /\ Len(gwPIs) < MaxPIs
       /\ TxnWriterBegins(TxnWriter("paySubscriptionOnBehalf", Len(gwPIs) + 1, "succeeded",
                                    "cus_tenant", NoId, i))
       /\ gwPIs' = Append(gwPIs, GwPI(sid, "succeeded"))
       /\ gwSubs' = [gwSubs EXCEPT ![sid] =
                       [gw EXCEPT !.invoice = "paid",
                                  !.status = IF @ \in {"canceled", "incomplete_expired"}
                                             THEN @ ELSE "active"]]
       /\ UNCHANGED <<subs, txns, resp>>
       /\ TxnFrame

\* paySubscriptionOnBehalf from the answer of invoices.pay: the subscription
\* record becomes active and a new transaction document is saved
PayOnBehalfRecord ==
  \E k \in 1..Len(txnReq) :
    LET e == txnReq[k]
        sdoc == [subs[e.sub] EXCEPT !.status = "active"]
        doc == TxnDoc(e.pi, subs[e.sub].sid, subs[e.sub].sid, e.customer, PlanPrice,
                      "USD", "succeeded", "subscription")
        subOk == SubSaveOk(subs, e.sub, sdoc)
        txnOk == subOk /\ TxnSaveOk(doc)
    IN /\ e.writer = "paySubscriptionOnBehalf"
       /\ TxnWriterEnds(k)
       /\ subs' = IF subOk THEN [subs EXCEPT ![e.sub] = sdoc] ELSE subs
       /\ txns' = IF txnOk THEN Append(txns, doc) ELSE txns
       /\ Len(txns') <= MaxTxns
       /\ resp' = Reply("paySubscriptionOnBehalf", IF txnOk THEN 200 ELSE 400,
                        IF txnOk THEN "paid" ELSE "payment_failed", e.sub, "", "", "pm_admin",
                        {"subscriptions.retrieve", "customers.list", "paymentMethods.retrieve",
                         "paymentIntents.create", "invoices.pay"})
       /\ UNCHANGED <<gwSubs, gwPIs>>
       /\ TxnFrame

\* One unpaid subscription and an empty transaction store.
TxnInit == IntentInit

TxnNext ==
  \/ PaymentIntentFind
  \/ PaymentIntentSave
  \/ SyncTransactionFind
  \/ SyncTransactionSave
  \/ PayOnBehalfCharge
  \/ PayOnBehalfRecord

SpecTxn == TxnInit /\ [][TxnNext]_vars

\* C6: whatever the writers of the transaction store do and however their
\* lookups and saves interleave, no payment intent id is held by two
\* transaction records.
C6_IntentHeldByOneRecord ==
  \A pi \in GatewayIntents : Cardinality(TxnsOf(txns, pi)) <= 1

\* C11: whenever paySubscriptionOnBehalf answers with a payment failure (the
\* payment intent did not succeed, or a step of the payment block threw), the
\* status of every local subscription record and the transaction records are
\* what they were before the request.
C11_PaymentFailureChangesNothing ==
  [][(resp'.op = "paySubscriptionOnBehalf"
        /\ resp'.msg \in {"payment_failed", "payment_failed_status"})
       => /\ txns' = txns
          /\ Len(subs') = Len(subs)
          /\ \A i \in 1..Len(subs) : subs'[i].status = subs[i].status]_vars

\* C12: when paySubscriptionOnBehalf reports success, the gateway invoice is
\* paid (by invoices.pay, after a payment intent that succeeded), the local
\* record is active, and exactly one transaction was appended, with status
\* succeeded and the ids of the payment intent, the invoice and the
\* subscription.
C12_SuccessRecordsPayment ==
  [][(resp'.op = "paySubscriptionOnBehalf" /\ resp'.code = 200)
       => LET i == resp'.target
              sid == subs[i].sid
              new == txns'[Len(txns')]
          IN /\ "invoices.pay" \in resp'.calls
             /\ gwSubs'[sid].invoice = "paid"
             /\ Len(gwPIs') = Len(gwPIs) + 1
             /\ gwPIs'[Len(gwPIs')].status = "succeeded"
             /\ subs'[i].status = "active"
             /\ Len(txns') = Len(txns) + 1
             /\ SubSeq(txns', 1, Len(txns)) = txns
             /\ new.status = "succeeded"
             /\ new.pi = Len(gwPIs')
             /\ new.inv = sid
             /\ new.sub = sid]_vars

\* a payment on behalf succeeded and was recorded
C12_Witness ==
  /\ resp.op = "paySubscriptionOnBehalf"
  /\ resp.code = 200
  /\ resp.target \in 1..Len(subs)
  /\ subs[resp.target].status = "active"
  /\ Len(txns) = 1
  /\ txns[1].pi = Len(gwPIs)
  /\ txns[1].status = "succeeded"
  /\ gwSubs[subs[resp.target].sid].invoice = "paid"

\* ========================================================= subscription creation
\* A store that is empty or holds one record of tenant t1 in any status; every
\* request, with a gateway and a store that may fail at any step.
CreateInit ==
  /\ \E n \in 0..1, st \in SubStatuses :
       /\ n = 0 => st = "incomplete"
       /\ subs = IF n = 0 THEN <<>>
                 ELSE <<SubDoc("t1", "p1", 1, st, IF st = "trialing" THEN 1 ELSE NoDate)>>
       /\ gwSubs = IF n = 0 THEN <<>>
                   ELSE <<GwSub(st, IF st = "incomplete" THEN "open" ELSE "paid")>>
  /\ txns = <<>>
  /\ plans = [p \in PlanIds |-> PlanDoc(TRUE, TRUE, FALSE)]
  /\ gwPIs = <<>>
  /\ gwEvents = <<>>
  /\ delivered = {}
  /\ uniqueIndexBuilt \in BOOLEAN
  /\ now = 0
  /\ resp = NoReply
  /\ planReq = <<>>
  /\ txnReq = <<>>
  /\ gateOut = NoGate
  /\ syncOut = NoSync
  /\ userClinics = <<>>
  /\ migrateOut = NoMigration
  /\ ops = 0
  /\ workload = "full"

CreateNext == CreateSubscription

SpecCreate == CreateInit /\ [][CreateNext]_vars

\* C13: when the delegated-pay path of createSubscription has created the
\* gateway subscription and the payment is not confirmed (the payment intent
\* call throws or returns another status than succeeded, or invoices.pay
\* throws, so that the invoice stays open), the request fails with
\* PaymentFailed, the gateway subscription stays incomplete, and no local
\* subscription record and no transaction is written.
C13_FailedConfirmationPersistsNothing ==
  [][(/\ resp'.op = "createSubscription"
      /\ "paymentIntents.create" \in resp'.calls
      /\ Len(gwSubs') = Len(gwSubs) + 1
      /\ gwSubs'[Len(gwSubs')].invoice = "open")
       => /\ resp'.code = 400
          /\ resp'.msg = "payment_failed"
          /\ gwSubs'[Len(gwSubs')].status = "incomplete"
          /\ subs' = subs
          /\ txns' = txns]_vars

\* the admin's payment intent came back without succeeding: the gateway
\* subscription exists, incomplete, and the store has no record of it
C13_Witness ==
  /\ resp.op = "createSubscription"
  /\ resp.msg = "payment_failed"
  /\ gwPIs # <<>>
  /\ gwPIs[Len(gwPIs)].status # "succeeded"
  /\ gwSubs # <<>>
  /\ gwSubs[Len(gwSubs)].status = "incomplete"
  /\ \A i \in 1..Len(subs) : subs[i].sid # Len(gwSubs)

\* C14: whenever the delegated-pay path of createSubscription writes the
\* succeeded transaction of a new gateway subscription, the request ends with
\* a local subscription record for that gateway subscription whose status is
\* the gateway's refreshed status.
C14_PaidSubscriptionIsRecorded ==
  [][(/\ resp'.op = "createSubscription"
      /\ Len(txns') = Len(txns) + 1
      /\ txns'[Len(txns')].status = "succeeded")
       => \E i \in 1..Len(subs') :
            /\ subs'[i].sid = txns'[Len(txns')].sub
            /\ subs'[i].status = gwSubs'[subs'[i].sid].status]_vars

\* C15: a createSubscription that names an absent tenant or an absent plan, or
\* a tenant holding an active, trialing or past_due record, is rejected (404,
\* 404, 400 Conflict) without any gateway call, and writes no subscription
\* record and no transaction.
C15_RejectionsTouchNothing ==
  [][(/\ resp'.op = "createSubscription"
      /\ resp'.code # 401
      /\ \/ resp'.arg \notin Tenants
         \/ resp'.plan \notin PlanIds
         \/ ActiveRecords(resp'.arg) # {})
       => /\ resp'.code = IF resp'.arg \notin Tenants \/ resp'.plan \notin PlanIds
                          THEN 404 ELSE 400
          /\ resp'.msg \in {"tenant_not_found", "plan_not_found", "conflict"}
          /\ resp'.calls = {}
          /\ subs' = subs /\ txns' = txns
          /\ gwSubs' = gwSubs /\ gwPIs' = gwPIs]_vars

\* a request naming an absent plan for a tenant without any record was
\* answered 404 and nothing was created
C15_Witness ==
  /\ resp.op = "createSubscription"
  /\ resp.code = 404
  /\ resp.msg = "plan_not_found"
  /\ resp.calls = {}
  /\ subs = <<>> /\ gwSubs = <<>>

\* ============================================================ transaction sync
\* the payment intents a page of paymentIntents.list can hold
SyncUniverse == GatewayIntents \union {ForeignPiId}

\* a loop that stops at the first item that fails
ContinuesAfterErrorNever(rep) == rep.errors = 0

\* lines 1162-1234: the try/catch is inside the for loop, so the loop goes on
\* to the next payment intent whatever happened to the ones before
ContinuesAfterError(rep) == TRUE

\* a loop that never finds an existing record
SyncSkipsNever(store, pi) == FALSE

\* lines 1165-1172: a payment intent that has a record is skipped
SyncSkips(store, pi) == PIFound(store, pi) # NoId

\* one turn of the loop: skip, or save a new document, or count the error
SyncItem(acc, pi, failing) ==
  LET doc == SyncDoc(pi, IntentStatus(pi), IntentCustomer(pi))
      r == acc.report
  IN IF ~ContinuesAfterError(r) THEN acc
     ELSE IF SyncSkips(acc.store, pi)
     THEN [acc EXCEPT !.report.skipped = @ + 1]
     ELSE IF pi \in failing \/ ~TxnSaveOk(doc)
     THEN [acc EXCEPT !.report.errors = @ + 1, !.report.messages = Append(@, pi)]
     ELSE [store |-> Append(acc.store, doc),
           report |-> [r EXCEPT !.synced = @ + 1]]

RECURSIVE SyncLoop(_, _, _, _)
SyncLoop(acc, page, k, failing) ==
  IF k > Len(page) THEN acc
  ELSE SyncLoop(SyncItem(acc, page[k], failing), page, k + 1, failing)

\* syncTransactionsFromStripe: the store and the report after the whole page
syncTransactionsFromStripe(store, page, failing) ==
  SyncLoop([store |-> store, report |-> SyncReport(page, 0, 0, <<>>, 0)], page, 1, failing)

\* a set of payment intents as the page that lists them in ascending order
RECURSIVE PageOf(_)
PageOf(S) ==
  IF S = {} THEN <<>>
  ELSE LET m == CHOOSE x \in S : \A y \in S : x <= y
       IN <<m>> \o PageOf(S \ {m})

\* the runs explored: any page, a gateway whose list call may throw, and a
\* store that refuses at most one of the saves
SyncTransactionsFromStripe ==
  \E S \in SUBSET SyncUniverse, listFails \in BOOLEAN :
    \E failing \in {{}} \union {{pi} : pi \in S} :
      LET page == PageOf(S)
          out == syncTransactionsFromStripe(txns, page, failing)
      IN /\ ops < MaxOps
         /\ ops' = ops + 1
         /\ listFails => (S = {} /\ failing = {})
         /\ Len(out.store) <= MaxTxns
         /\ txns' = IF listFails THEN txns ELSE out.store
         /\ syncOut' = IF listFails THEN syncOut ELSE out.report
         /\ resp' = Reply("syncTransactionsFromStripe", IF listFails THEN 500 ELSE 200,
                          IF listFails THEN "error" ELSE "synced", NoId, "", "", "", {})
         /\ UNCHANGED <<subs, plans, gwSubs, gwPIs, gwEvents, delivered, uniqueIndexBuilt,
                        now, planReq, txnReq, gateOut, userClinics, migrateOut, workload>>

\* One unpaid subscription and an empty transaction store; the admin pays,
\* the gateway delivers payment intent events, and the sync is run.
SyncInit == IntentInit

SyncNext == SyncTransactionsFromStripe \/ PaySubscriptionOnBehalf \/ HandleWebhook

SpecSync == SyncInit /\ [][SyncNext]_vars

\* the step is a completed run of syncTransactionsFromStripe
SyncRan == resp'.op = "syncTransactionsFromStripe" /\ resp'.code = 200

\* items of the page that had a record before the run
SyncKnown == {k \in 1..Len(syncOut'.page) : TxnsOf(txns, syncOut'.page[k]) # {}}

\* the records the step appended
SyncNew == (Len(txns) + 1)..Len(txns')

C17_SyncFailuresArePerItem ==
  [][SyncRan =>
       LET r == syncOut'
       IN /\ r.total = Len(r.page)
          /\ r.synced + r.errors + r.skipped = r.total
          /\ Len(r.messages) = r.errors
          /\ \A j, k \in 1..Len(r.messages) : r.messages[j] = r.messages[k] => j = k
          /\ r.synced = Len(txns') - Len(txns)
          /\ \A k \in 1..Len(r.page) :
               \/ TxnsOf(txns', r.page[k]) # {}
               \/ \E j \in 1..Len(r.messages) : r.messages[j] = r.page[k]]_vars

\* a run whose first item failed and whose later item was stored
C17_Witness ==
  /\ resp.op = "syncTransactionsFromStripe"
  /\ resp.code = 200
  /\ syncOut.errors = 1
  /\ syncOut.synced >= 1
  /\ Len(syncOut.page) >= 2
  /\ syncOut.messages = <<syncOut.page[1]>>
  /\ TxnsOf(txns, syncOut.page[Len(syncOut.page)]) # {}

\* C18: deletePlan on an existing plan that a subscription with status
\* active, trialing or past_due references is rejected with 400, makes no
\* gateway call, starts no save, and leaves every plan, its is_active
\* included, as it was.
C18_ReferencedPlanNotArchived ==
  [][(/\ resp'.op = "deletePlan"
      /\ ops' = ops + 1
      /\ resp'.plan \in PlanIds
      /\ plans[resp'.plan].exists
      /\ \E i \in 1..Len(subs) :
           subs[i].plan = resp'.plan /\ subs[i].status \in {"active", "trialing", "past_due"})
       => /\ resp'.code = 400
          /\ resp'.msg = "has_active_subscriptions"
          /\ resp'.calls = {}
          /\ planReq' = planReq
          /\ plans' = plans]_vars

\* archiving a plan that a trialing subscription references was refused, and
\* the plan is still active
C18_Witness ==
  /\ resp.op = "deletePlan"
  /\ resp.code = 400
  /\ resp.msg = "has_active_subscriptions"
  /\ resp.plan \in PlanIds
  /\ plans[resp.plan].is_active
  /\ \E i \in 1..Len(subs) : subs[i].plan = resp.plan /\ subs[i].status = "trialing"

\* C19: once a transaction record has status succeeded or failed, no
\* operation (a payment intent event for its id, a sync run, a payment on
\* behalf) changes its status.
C19_TerminalStatusKept ==
  [][\A i \in 1..Len(txns) :
       txns[i].status \in {"succeeded", "failed"}
         => (i <= Len(txns') /\ txns'[i].status = txns[i].status)]_vars

\* ============================================================== redelivery
\* One subscription; the gateway moves it between statuses and delivers its
\* subscription events and its invoice events, each as often as it likes.
RedeliverInit ==
  /\ subs = <<SubDoc("t1", "p1", 1, "incomplete", NoDate)>>
  /\ gwSubs = <<GwSub("incomplete", "open")>>
  /\ txns = <<>>
  /\ plans = [p \in PlanIds |-> PlanDoc(TRUE, TRUE, FALSE)]
  /\ gwPIs = <<>>
  /\ gwEvents = <<>>
  /\ delivered = {}
  /\ uniqueIndexBuilt \in BOOLEAN
  /\ now = 0
  /\ resp = NoReply
  /\ planReq = <<>>
  /\ txnReq = <<>>
  /\ gateOut = NoGate
  /\ syncOut = NoSync
  /\ userClinics = <<>>
  /\ migrateOut = NoMigration
  /\ ops = 0
  /\ workload = "deliveries"

RedeliverNext == GatewayTransition \/ HandleWebhook

SpecRedeliver == RedeliverInit /\ [][RedeliverNext]_vars

C21_CanceledStaysCanceled ==
  [][\A i \in 1..Len(subs) :
       subs[i].status = "canceled"
         => /\ i <= Len(subs')
            /\ subs'[i].sid = subs[i].sid
            /\ subs'[i].status = "canceled"]_vars


\* =========================================================== gate middlewares
\* A request as a middleware sees it: whether req.user is set, the user's
\* role and tenant_id, req.tenant_id, and for authenticateWithSubscription the
\* bearer token ("none", "invalid", "valid"; a valid token's tenant_id claim
\* is reqTenant) and the outcome of User.findById ("found", "absent",
\* "inactive", "error"); required is the feature list of
\* requireSubscriptionFeatures.
WareReq(user, role, reqTenant, userTenant, token, lookup, required) ==
  [user |-> user, role |-> role, reqTenant |-> reqTenant, userTenant |-> userTenant,
   token |-> token, lookup |-> lookup, required |-> required]

BlockingWares ==
  {"requireActiveSubscription", "requireSubscriptionFeatures",
   "authenticateWithSubscription", "validateActiveSession"}
Wares == BlockingWares \union {"addSubscriptionInfo"}

\* reads of the subscription store a middleware can make
StoreReads == {"canTenantUsersLogin", "getTenantSubscription"}

\* features of each plan, as populate('plan_id', 'name features') returns them
PlanFeatures(p) == IF p = "p1" THEN {"reports"} ELSE {}

\* the bypass test with no role exempt
SuperAdminBypassNobody(r) == FALSE

\* req.user?.role === 'super_admin'
SuperAdminBypass(r) == r.user /\ r.role = "super_admin"

\* req.tenant_id || req.user?.tenant_id
TenantOf(r) ==
  IF r.reqTenant # "" THEN r.reqTenant
  ELSE IF r.user THEN r.userTenant ELSE ""

\* The reply of a middleware: code 0 with "next" among the calls when the
\* request is passed on, the HTTP status otherwise; arg is the tenant the
\* middleware resolved, plan the role of req.user ("" when req.user is not
\* set), pm whether the store answered.
WareReply(m, r, code, tag, t, dbFails, calls) ==
  Reply(m, code, tag, NoId, t, IF r.user THEN r.role ELSE "",
        IF dbFails THEN "store_down" ELSE "store_up", calls)

\* the gate branch shared by the blocking middlewares: deny with 403 and the
\* given code, or pass the request on
GateBranch(m, r, t, dbFails, tag) ==
  LET check == canTenantUsersLogin(subs, t, now, dbFails)
  IN [gate |-> check,
      resp |-> IF ~check.allowed
               THEN WareReply(m, r, 403, tag, t, dbFails, {"canTenantUsersLogin"})
               ELSE WareReply(m, r, 0, "next", t, dbFails, {"canTenantUsersLogin", "next"})]

Passed(m, r, t, dbFails) ==
  [gate |-> gateOut, resp |-> WareReply(m, r, 0, "next", t, dbFails, {"next"})]

Refused(m, r, code, tag, t, dbFails) ==
  [gate |-> gateOut, resp |-> WareReply(m, r, code, tag, t, dbFails, {})]

requireActiveSubscription(r, dbFails) ==
  LET m == "requireActiveSubscription"
      t == TenantOf(r)
  IN IF ~r.user THEN Passed(m, r, "", dbFails)
     ELSE IF SuperAdminBypass(r) THEN Passed(m, r, "", dbFails)
     ELSE IF t = "" THEN Refused(m, r, 403, "NO_TENANT_CONTEXT", t, dbFails)
     ELSE GateBranch(m, r, t, dbFails, "SUBSCRIPTION_REQUIRED")

addSubscriptionInfo(r, dbFails) ==
  LET m == "addSubscriptionInfo"
      t == TenantOf(r)
  IN IF SuperAdminBypass(r) THEN Passed(m, r, "", dbFails)
     ELSE IF t = "" THEN Passed(m, r, t, dbFails)
     ELSE [gate |-> gateOut,
           resp |-> WareReply(m, r, 0, "next", t, dbFails,
                              {"getTenantSubscription", "next"})]

requireSubscriptionFeatures(r, dbFails) ==
  LET m == "requireSubscriptionFeatures"
      t == TenantOf(r)
      b == GateBranch(m, r, t, dbFails, "SUBSCRIPTION_REQUIRED")
      i == getTenantSubscription(subs, t, dbFails)
      missing == r.required \ PlanFeatures(subs[i].plan)
  IN IF SuperAdminBypass(r) THEN Passed(m, r, "", dbFails)
     ELSE IF t = "" THEN Refused(m, r, 403, "NO_TENANT_CONTEXT", t, dbFails)
     ELSE IF ~b.gate.allowed THEN b
     ELSE IF missing # {}
     THEN [gate |-> b.gate,
           resp |-> WareReply(m, r, 403, "FEATURE_NOT_AVAILABLE", t, dbFails,
                              {"canTenantUsersLogin"})]
     ELSE b

\* req.user and req.tenant_id are set by the middleware itself once the
\* token is verified and the account is found active
authenticateWithSubscription(r, dbFails) ==
  LET m == "authenticateWithSubscription"
      anon == [r EXCEPT !.user = FALSE]
      known == [r EXCEPT !.user = TRUE]
      t == TenantOf(known)
  IN IF r.token = "none" THEN Refused(m, anon, 401, "NO_TOKEN", "", dbFails)
     ELSE IF r.token = "invalid" THEN Refused(m, anon, 401, "INVALID_TOKEN", "", dbFails)
     ELSE IF r.lookup = "error" THEN Refused(m, anon, 500, "AUTH_ERROR", "", dbFails)
     ELSE IF r.lookup = "absent" THEN Refused(m, anon, 401, "USER_NOT_FOUND", "", dbFails)
     ELSE IF r.lookup = "inactive"
     THEN Refused(m, anon, 401, "ACCOUNT_DEACTIVATED", "", dbFails)
     ELSE IF SuperAdminBypass(known) THEN Passed(m, known, t, dbFails)
     ELSE IF t # "" THEN GateBranch(m, known, t, dbFails, "SUBSCRIPTION_REQUIRED")
     ELSE Refused(m, known, 403, "NO_TENANT_CONTEXT", t, dbFails)

validateActiveSession(r, dbFails) ==
  LET m == "validateActiveSession"
      t == TenantOf(r)
  IN IF SuperAdminBypass(r) THEN Passed(m, r, "", dbFails)
     ELSE IF t = "" THEN Refused(m, r, 403, "SESSION_EXPIRED", t, dbFails)
     ELSE GateBranch(m, r, t, dbFails, "SUBSCRIPTION_CHANGED")

Ware(m, r, dbFails) ==
  CASE m = "requireActiveSubscription" -> requireActiveSubscription(r, dbFails)
    [] m = "addSubscriptionInfo" -> addSubscriptionInfo(r, dbFails)
    [] m = "requireSubscriptionFeatures" -> requireSubscriptionFeatures(r, dbFails)
    [] m = "authenticateWithSubscription" -> authenticateWithSubscription(r, dbFails)
    [] m = "validateActiveSession" -> validateActiveSession(r, dbFails)

\* the requests explored: with and without req.user, a privileged and an
\* ordinary role, every combination of the two tenant fields, and for
\* authenticateWithSubscription every token and account lookup outcome
WareRequests(m) ==
  {WareReq(u, role, rt, ut, tok, lk, rq) :
     u \in IF m = "authenticateWithSubscription" THEN {FALSE} ELSE BOOLEAN,
     role \in {"super_admin", "doctor"},
     rt \in {"", "t1", "t2"},
     ut \in {"", "t1"},
     tok \in IF m = "authenticateWithSubscription"
             THEN {"none", "invalid", "valid"} ELSE {"valid"},
     lk \in IF m = "authenticateWithSubscription"
            THEN {"found", "absent", "inactive", "error"} ELSE {"found"},
     rq \in IF m = "requireSubscriptionFeatures" THEN {{}, {"reports"}} ELSE {{}}}

\* One request passing through one middleware.  The middlewares write
\* nothing, so a behaviour is a store and one request on it.
GateMiddleware ==
  /\ ops = 0
  /\ \E m \in Wares, dbFails \in BOOLEAN :
    \E r \in WareRequests(m) :
      LET out == Ware(m, r, dbFails)
      IN /\ gateOut' = out.gate
         /\ resp' = out.resp
         /\ ops' = 1
         /\ UNCHANGED <<subs, txns, plans, gwSubs, gwPIs, gwEvents, delivered,
                        uniqueIndexBuilt, now, planReq, txnReq, syncOut, userClinics, migrateOut, workload>>

\* Stores the middlewares run on: up to MaxGateSubs records of two tenants,
\* on either plan, active, on trial until 1 or canceled.
WareDocs ==
  {SubDoc(tp[1], tp[2], 1, st, IF st = "trialing" THEN 1 ELSE NoDate) :
     tp \in {<<"t1", "p1">>, <<"t1", "p2">>, <<"t2", "p1">>},
     st \in {"active", "trialing", "canceled"}}

WareInit ==
  /\ subs \in UNION {[1..n -> WareDocs] : n \in 0..MaxGateSubs}
  /\ now \in 0..MaxNow
  /\ txns = <<>>
  /\ plans = [p \in PlanIds |-> PlanDoc(TRUE, TRUE, FALSE)]
  /\ gwSubs = <<>>
  /\ gwPIs = <<>>
  /\ gwEvents = <<>>
  /\ delivered = {}
  /\ uniqueIndexBuilt = FALSE
  /\ resp = NoReply
  /\ planReq = <<>>
  /\ txnReq = <<>>
  /\ gateOut = NoGate
  /\ syncOut = NoSync
  /\ userClinics = <<>>
  /\ migrateOut = NoMigration
  /\ ops = 0
  /\ workload = "full"

SpecWare == WareInit /\ [][GateMiddleware]_vars

\* C22: a request whose user is a super_admin is passed on by every gate
\* middleware without a read of the subscription store, whatever the
\* tenant's records; an ordinary user's request whose tenant the gate denies
\* is answered 403 by every blocking middleware and is not passed on.
C22_SuperAdminBypassesOthersBlocked ==
  resp.op \in Wares =>
    /\ resp.plan = "super_admin"
         => /\ resp.code = 0
            /\ "next" \in resp.calls
            /\ resp.calls \intersect StoreReads = {}
    /\ ( /\ resp.op \in BlockingWares
         /\ resp.plan \notin {"", "super_admin"}
         /\ resp.arg # ""
         /\ ~canTenantUsersLogin(subs, resp.arg, now, resp.pm = "store_down").allowed )
         => /\ resp.code = 403
            /\ "next" \notin resp.calls

\* a super_admin of a tenant whose newest record is canceled is passed on
C22_Witness ==
  /\ resp.op = "validateActiveSession"
  /\ resp.plan = "super_admin"
  /\ "next" \in resp.calls
  /\ Len(subs) = 2
  /\ \A i \in 1..2 : subs[i].tenant = "t1" /\ subs[i].status = "canceled"


\* ===================================================== the newest record rules
\* C23: the gate decides on the tenant's most recently created record alone:
\* with an older active record and a newer canceled or incomplete one the
\* tenant is denied, with an older canceled record and a newer active one it
\* is allowed.  (Records are stored in creation order.)
C23_NewestRecordDecides ==
  (resp.op = "gate" /\ resp.code = 0) =>
    \A i \in 1..Len(subs) :
      ( /\ subs[i].tenant = gateOut.tenant
        /\ \A j \in (i + 1)..Len(subs) : subs[j].tenant # gateOut.tenant )
        => /\ gateOut.status = subs[i].status
           /\ gateOut.allowed = GateDecision(subs[i].status, subs[i].trial_end, now).allowed

\* an older active record and a newer canceled one: denied
C23_Witness ==
  /\ resp.op = "gate"
  /\ resp.code = 0
  /\ Len(subs) = 2
  /\ subs[1].tenant = gateOut.tenant
  /\ subs[2].tenant = gateOut.tenant
  /\ subs[1].status = "active"
  /\ subs[2].status = "canceled"
  /\ ~gateOut.allowed


\* ================================================== plan sync from the gateway
MaxPrices == 2        \* prices in the gateway's listing
MaxPlanDocs == 2      \* plan documents in the store before a run
MaxCatalogRuns == 2   \* runs of the plan sync in one behaviour

\* Here the SubscriptionPlan collection is held as a list of documents with
\* their gateway links: stripe_product_id, stripe_price_id (unique),
\* is_active and created_by (required; 0 when not set).
GwProducts == {"prod_a", "prod_b"}

LinkedPlan(prod, price, active, by) ==
  [stripe_product_id |-> prod, stripe_price_id |-> price, is_active |-> active,
   created_by |-> by]

\* SubscriptionPlan.save(): created_by is required and stripe_price_id is
\* unique
LinkedPlanSaveOk(store, self, doc) ==
  /\ doc.created_by # NoId
  /\ \A j \in 1..Len(store) :
       j # self => store[j].stripe_price_id # doc.stripe_price_id

\* findOne({$or: [{stripe_product_id}, {stripe_price_id}]}) with no sort: one
\* of the matching documents; pick says which end of the store it comes from
FindPlan(store, prod, price, pick) ==
  LET hits == {i \in 1..Len(store) :
                 store[i].stripe_product_id = prod \/ store[i].stripe_price_id = price}
  IN IF hits = {} THEN NoId
     ELSE IF pick = "first" THEN CHOOSE i \in hits : \A j \in hits : i <= j
     ELSE CHOOSE i \in hits : \A j \in hits : j <= i

\* the recurring prices of a product, in listing order (prices are named by
\* their position in the listing)
RecurringPricesOf(prod, prices) ==
  LET Mine(k) == prices[k].product = prod /\ prices[k].recurring
  IN SelectSeq([k \in 1..Len(prices) |-> k], Mine)

\* lines 278-332, one price: create a plan when none matches, update the
\* matching plan otherwise; a save that throws leaves the rest of the
\* product's prices unvisited
SyncPlanPrice(acc, prod, price, pick, failAt) ==
  LET i == FindPlan(acc.store, prod, price, pick)
      newPlan == LinkedPlan(prod, price, TRUE, NoId)
      updated == [acc.store[i] EXCEPT !.stripe_product_id = prod,
                                      !.stripe_price_id = price,
                                      !.is_active = TRUE]
  IN IF acc.threw THEN acc
     ELSE IF i = NoId
     THEN IF failAt = price \/ ~LinkedPlanSaveOk(acc.store, Len(acc.store) + 1, newPlan)
          THEN [acc EXCEPT !.threw = TRUE]
          ELSE [acc EXCEPT !.store = Append(@, newPlan), !.synced = @ + 1]
     ELSE IF failAt = price \/ ~LinkedPlanSaveOk(acc.store, i, updated)
          THEN [acc EXCEPT !.threw = TRUE]
          ELSE [acc EXCEPT !.store[i] = updated, !.synced = @ + 1]

RECURSIVE SyncPlanPrices(_, _, _, _, _, _)
SyncPlanPrices(acc, prod, ids, j, pick, failAt) ==
  IF j > Len(ids) THEN acc
  ELSE SyncPlanPrices(SyncPlanPrice(acc, prod, ids[j], pick, failAt),
                      prod, ids, j + 1, pick, failAt)

\* lines 271-339, one product: the try block over its recurring prices and
\* the catch that counts the product as an error
SyncPlanProduct(acc, prod, prices, pick, failAt) ==
  LET ids == RecurringPricesOf(prod, prices)
      r == SyncPlanPrices(acc, prod, ids, 1, pick, failAt)
      seen == [acc EXCEPT !.page = @ \o [k \in 1..Len(ids) |->
                                           [product |-> prod, price |-> ids[k]]]]
  IN IF r.threw
     THEN [seen EXCEPT !.store = r.store, !.synced = r.synced,
                        !.errors = @ + 1, !.messages = Append(@, prod)]
     ELSE [seen EXCEPT !.store = r.store, !.synced = r.synced]

RECURSIVE SyncPlanProducts(_, _, _, _, _, _)
SyncPlanProducts(acc, products, j, prices, pick, failAt) ==
  IF j > Len(products) THEN acc
  ELSE SyncPlanProducts(SyncPlanProduct(acc, products[j], prices, pick, failAt),
                        products, j + 1, prices, pick, failAt)

syncPlansFromStripe(store, products, prices, pick, failAt) ==
  SyncPlanProducts([store |-> store, synced |-> 0, errors |-> 0, messages |-> <<>>,
                    page |-> <<>>, threw |-> FALSE],
                   products, 1, prices, pick, failAt)

\* the listings explored: one or two active products, and up to MaxPrices
\* active prices, each of one product, recurring except possibly the last
ProductListings == {<<"prod_a">>, <<"prod_a", "prod_b">>}

PriceListings ==
  {ps \in UNION {[1..n -> [product : GwProducts, recurring : BOOLEAN]] : n \in 0..MaxPrices} :
     \A k \in 1..Len(ps) : k < Len(ps) => ps[k].recurring}

\* One run of syncPlansFromStripe: the two listings, then the loop.
SyncPlansRun ==
  \E products \in ProductListings, prices \in PriceListings,
     pick \in {"first", "last"}, failAt \in 0..1, gwFails \in BOOLEAN :
    LET out == syncPlansFromStripe(plans, products, prices, pick, failAt)
    IN /\ ops < MaxCatalogRuns
       /\ ops' = ops + 1
       /\ gwFails => (products = <<"prod_a">> /\ prices = <<>> /\ pick = "first" /\ failAt = 0)
       /\ pick = "last" => Len(plans) > 1
       /\ IF gwFails
          THEN /\ resp' = PlanReply("syncPlansFromStripe", 500, "error", "")
               /\ UNCHANGED <<plans, syncOut>>
          ELSE /\ plans' = out.store
               /\ syncOut' = SyncReport(out.page, out.synced, out.errors, out.messages, 0)
               /\ resp' = PlanReply("syncPlansFromStripe", 200, "synced", "")
       /\ UNCHANGED <<subs, txns, gwSubs, gwPIs, gwEvents, delivered, uniqueIndexBuilt,
                      now, planReq, txnReq, gateOut, userClinics, migrateOut, workload>>

\* Stores a run starts from: up to MaxPlanDocs plans created by an admin,
\* each linked to a product and to a price of its own; price MaxPrices + 1
\* is one the gateway no longer lists.
LinkedPlans ==
  {LinkedPlan(prod, price, a, 1) :
     prod \in GwProducts, price \in 1..(MaxPrices + 1), a \in BOOLEAN}

CatalogInit ==
  /\ plans \in {st \in UNION {[1..n -> LinkedPlans] : n \in 0..MaxPlanDocs} :
                  \A i, j \in 1..Len(st) :
                    i # j => st[i].stripe_price_id # st[j].stripe_price_id}
  /\ subs = <<>>
  /\ txns = <<>>
  /\ gwSubs = <<>>
  /\ gwPIs = <<>>
  /\ gwEvents = <<>>
  /\ delivered = {}
  /\ uniqueIndexBuilt = FALSE
  /\ now = 0
  /\ resp = NoReply
  /\ planReq = <<>>
  /\ txnReq = <<>>
  /\ gateOut = NoGate
  /\ syncOut = NoSync
  /\ userClinics = <<>>
  /\ migrateOut = NoMigration
  /\ ops = 0
  /\ workload = "full"

SpecCatalog == CatalogInit /\ [][SyncPlansRun]_vars

\* C24: after a run of syncPlansFromStripe that reports error_count 0, every
\* recurring price of a listed product is the stripe_price_id of exactly one
\* local plan.
C24_EveryListedPriceHasOnePlan ==
  ( /\ resp.op = "syncPlansFromStripe"
    /\ resp.code = 200
    /\ syncOut.errors = 0 )
    => \A k \in 1..Len(syncOut.page) :
         Cardinality({i \in 1..Len(plans) :
                        plans[i].stripe_price_id = syncOut.page[k].price}) = 1


\* ========================================================= transaction amounts
\* One subscription awaiting payment; payments on behalf and payment intent
\* events carrying every amount and fee.
AmountInit ==
  /\ subs = <<SubDoc("t1", "p1", 1, "incomplete", NoDate)>>
  /\ gwSubs = <<GwSub("incomplete", "open")>>
  /\ txns = <<>>
  /\ plans = [p \in PlanIds |-> PlanDoc(TRUE, TRUE, FALSE)]
  /\ gwPIs = <<>>
  /\ gwEvents = <<>>
  /\ delivered = {}
  /\ uniqueIndexBuilt \in BOOLEAN
  /\ now = 0
  /\ resp = NoReply
  /\ planReq = <<>>
  /\ txnReq = <<>>
  /\ gateOut = NoGate
  /\ syncOut = NoSync
  /\ userClinics = <<>>
  /\ migrateOut = NoMigration
  /\ ops = 0
  /\ workload = "amounts"

SpecAmount == AmountInit /\ [][IntentNext]_vars

\* C25: every stored transaction has a non-negative amount, refunded amount
\* and fee, and a net amount, when it has one, no larger than its amount.
C25_AmountsInRange ==
  \A i \in 1..Len(txns) :
    /\ txns[i].amount >= 0
    /\ txns[i].refunded >= 0
    /\ txns[i].fee >= 0
    /\ txns[i].has_net => txns[i].net <= txns[i].amount


\* ================================================== migration of legacy roles
MaxUserClinics == 2   \* UserClinic records in the store

\* Clinics and the tenant of each; "c_gone" is a clinic id no document has.
Clinics == {"c1", "c2"}
ClinicTenant(c) == IF c = "c1" THEN "t1" ELSE "t2"

\* The system roles seeded per tenant, as <<tenant, name>>: tenant t1 has a
\* doctor and a staff role, tenant t2 (not among the seeded tenants) none.
SystemRoles == {<<"t1", "doctor">>, <<"t1", "staff">>}

\* A UserClinic document: the legacy role field ("" when absent), the clinic
\* it points to, the roles array and the permission audit trail.
UserClinicDoc(role, clinic, roles, audit) ==
  [role |-> role, clinic |-> clinic, roles |-> roles, audit |-> audit]

RoleAssignment(id) == [role_id |-> id, is_primary |-> TRUE]

\* a query that returns every record
NeedsMigrationAll(doc) == TRUE

\* lines 127-132: roles missing or empty
NeedsMigration(doc) == doc.roles = <<>>

\* a skip that is not counted
SkipRecordUncounted(acc) == acc

\* lines 146, 154, 211: the record is counted as skipped and the loop goes on
SkipRecord(acc) == [acc EXCEPT !.skipped = @ + 1]

\* lines 159-190: the roles array after the two lookups
RolesFor(doc) ==
  LET t == ClinicTenant(doc.clinic)
  IN IF <<t, doc.role>> \in SystemRoles THEN <<RoleAssignment(<<t, doc.role>>)>>
     ELSE IF <<t, "staff">> \in SystemRoles THEN <<RoleAssignment(<<t, "staff">>)>>
     ELSE doc.roles

\* lines 140-212, one record; failing is the set of records whose save the
\* store refuses.  Reading roles[0] of an empty array throws.
MigrateRecord(acc, i, failing) ==
  LET doc == acc.store[i]
      roles == RolesFor(doc)
      entry == [action |-> "role_migrated", old_role |-> doc.role,
                new_role_id |-> roles[1].role_id]
      saved == [doc EXCEPT !.roles = roles, !.audit = Append(@, entry)]
  IN IF doc.role = "" THEN SkipRecord(acc)
     ELSE IF doc.clinic \notin Clinics THEN SkipRecord(acc)
     ELSE IF roles = <<>> THEN SkipRecord(acc)
     ELSE IF i \in failing THEN SkipRecord(acc)
     ELSE [acc EXCEPT !.store[i] = saved, !.migrated = @ + 1]

RECURSIVE MigrateLoop(_, _, _, _)
MigrateLoop(acc, todo, k, failing) ==
  IF k > Len(todo) THEN acc
  ELSE MigrateLoop(MigrateRecord(acc, todo[k], failing), todo, k + 1, failing)

\* lines 121-220; a query that throws gives {migrated: 0, skipped: 0}
migrateExistingUsers(store, failing, findFails) ==
  LET Wanted(i) == NeedsMigration(store[i])
      todo == SelectSeq([i \in 1..Len(store) |-> i], Wanted)
      out == MigrateLoop([store |-> store, migrated |-> 0, skipped |-> 0],
                         todo, 1, failing)
  IN IF findFails THEN [store |-> store, result |-> NoMigration]
     ELSE [store |-> out.store,
           result |-> MigrationResult(Len(todo), out.migrated, out.skipped)]

MigrateExistingUsers ==
  \E findFails \in BOOLEAN :
    \E failing \in {{}} \union {{i} : i \in 1..Len(userClinics)} :
      LET out == migrateExistingUsers(userClinics, failing, findFails)
      IN /\ ops < MaxOps
         /\ ops' = ops + 1
         /\ findFails => failing = {}
         /\ userClinics' = out.store
         /\ migrateOut' = out.result
         /\ resp' = Reply("migrateExistingUsers", IF findFails THEN 1 ELSE 0,
                          "", NoId, "", "", "", {})
         /\ UNCHANGED <<subs, txns, plans, gwSubs, gwPIs, gwEvents, delivered,
                        uniqueIndexBuilt, now, planReq, txnReq, gateOut, syncOut,
                        workload>>

\* Stores the migration runs on: legacy records with or without a role, of
\* either clinic or of one that is gone, and records that already hold a
\* role.
LegacyDocs ==
  {UserClinicDoc(r, c, <<>>, <<>>) :
     r \in {"", "doctor", "nurse"}, c \in Clinics \union {"c_gone"}}
  \union
  {UserClinicDoc("doctor", "c1", <<RoleAssignment(<<"t1", "staff">>)>>, <<>>)}

MigrateInit ==
  /\ userClinics \in UNION {[1..n -> LegacyDocs] : n \in 0..MaxUserClinics}
  /\ migrateOut = NoMigration
  /\ subs = <<>>
  /\ txns = <<>>
  /\ plans = [p \in PlanIds |-> PlanDoc(TRUE, TRUE, FALSE)]
  /\ gwSubs = <<>>
  /\ gwPIs = <<>>
  /\ gwEvents = <<>>
  /\ delivered = {}
  /\ uniqueIndexBuilt = FALSE
  /\ now = 0
  /\ resp = NoReply
  /\ planReq = <<>>
  /\ txnReq = <<>>
  /\ gateOut = NoGate
  /\ syncOut = NoSync
  /\ ops = 0
  /\ workload = "full"

SpecMigrate == MigrateInit /\ [][MigrateExistingUsers]_vars

\* records a run newly left with a role assignment
NewlyAssigned ==
  {i \in 1..Len(userClinics) : userClinics[i].roles = <<>> /\ userClinics'[i].roles # <<>>}

\* C26: a run of migrateExistingUsers counts every record it scanned as
\* migrated or skipped, whatever fails on single records, and every record it
\* counted as migrated holds exactly one role assignment, primary, which is
\* the same-named system role of the clinic's tenant or, when there is none,
\* the tenant's staff role.
C26_FailuresSkippedBatchCompletes ==
  [][(resp'.op = "migrateExistingUsers" /\ resp'.code = 0 /\ ops' = ops + 1) =>
      /\ migrateOut'.scanned =
           Cardinality({i \in 1..Len(userClinics) : userClinics[i].roles = <<>>})
      /\ migrateOut'.migrated + migrateOut'.skipped = migrateOut'.scanned
      /\ migrateOut'.migrated = Cardinality(NewlyAssigned)
      /\ \A i \in NewlyAssigned :
           LET before == userClinics[i]
               after == userClinics'[i]
               t == ClinicTenant(before.clinic)
           IN /\ before.role # ""
              /\ before.clinic \in Clinics
              /\ Len(after.roles) = 1
              /\ after.roles[1].is_primary
              /\ after.roles[1].role_id =
                   IF <<t, before.role>> \in SystemRoles THEN <<t, before.role>>
                   ELSE <<t, "staff">>
              /\ after.roles[1].role_id \in SystemRoles]_vars

\* a run in which the first record's save failed and the second was migrated
\* to the staff role
C26_Witness ==
  /\ resp.op = "migrateExistingUsers"
  /\ ops = 1
  /\ migrateOut = MigrationResult(2, 1, 1)
  /\ userClinics[1].role = "doctor" /\ userClinics[1].clinic = "c1"
  /\ userClinics[1].roles = <<>>
  /\ userClinics[2].role = "nurse"
  /\ userClinics[2].roles = <<RoleAssignment(<<"t1", "staff">>)>>

\* C29: a record that a run migrated has a non-empty roles array and is not
\* selected again: a later run changes neither its role assignment nor its
\* audit trail.
C29_MigratedRecordsLeftAlone ==
  [][(resp'.op = "migrateExistingUsers" /\ ops' = ops + 1) =>
      \A i \in 1..Len(userClinics) :
        userClinics[i].audit # <<>>
          => /\ userClinics[i].roles # <<>>
             /\ userClinics'[i] = userClinics[i]]_vars

\* after a second run that scanned nothing, a record migrated by the first
\* run still has its one audit entry
C29_Witness ==
  /\ resp.op = "migrateExistingUsers"
  /\ resp.code = 0
  /\ ops = 2
  /\ migrateOut.scanned = 0
  /\ \E i \in 1..Len(userClinics) :
       /\ Len(userClinics[i].audit) = 1
       /\ Len(userClinics[i].roles) = 1


\* ================================================ one charge for one invoice
\* C27: over any sequence of paySubscriptionOnBehalf requests, at most one
\* payment intent succeeds for a given invoice (the latest invoice of a
\* gateway subscription, which no step replaces by a newer one here).
C27_OneChargePerInvoice ==
  \A sid \in 1..Len(gwSubs) :
    Cardinality({p \in 1..Len(gwPIs) :
                   gwPIs[p].sid = sid /\ gwPIs[p].status = "succeeded"}) <= 1


\* ============================================== archived plans stay unused
\* C28: no plan with is_active = false is referenced by a subscription
\* whose status is active, trialing or past_due.
C28_NoLiveSubscriptionOnArchivedPlan ==
  \A i \in 1..Len(subs) :
    subs[i].status \in {"active", "trialing", "past_due"}
      => plans[subs[i].plan].is_active


\* ======================================================= the gate fails closed
\* C30: when the store lookup fails while canTenantUsersLogin evaluates a
\* tenant, the result is a denial, and requireActiveSubscription answers an
\* ordinary user's request with 403 or 500 and does not pass it on.
C30_GateFailsClosed ==
  ( /\ resp.op \in Wares
    /\ resp.pm = "store_down"
    /\ "canTenantUsersLogin" \in resp.calls )
    => /\ gateOut.tenant = resp.arg
       /\ ~gateOut.allowed
       /\ resp.op = "requireActiveSubscription"
            => /\ resp.code \in {403, 500}
               /\ "next" \notin resp.calls

\* the store is down for a tenant whose newest record is active
C30_Witness ==
  /\ resp.op = "requireActiveSubscription"
  /\ resp.pm = "store_down"
  /\ resp.plan = "doctor"
  /\ resp.arg = "t1"
  /\ resp.code = 403
  /\ Len(subs) = 1
  /\ subs[1].tenant = "t1"
  /\ subs[1].status = "active"

====
